---------------------------- MODULE Spec2Model ----------------------------
(***************************************************************************)
(* A model of patch_file_mcp/server.py: the SEARCH/REPLACE block parser,   *)
(* the exact-match patch applicator of patch_file, the failed-edit         *)
(* tracker, the QA run on Python files and the fuzzy-match hint.           *)
(*                                                                         *)
(* Text is a sequence of tokens.  A token is one character ("a", "b",      *)
(* " ", "\n") or one of the three marker literals, kept whole: no other    *)
(* token shares a character with a marker, so substring search over        *)
(* tokens is substring search over the text the tokens spell.              *)
(***************************************************************************)
EXTENDS Integers, Sequences, FiniteSets, TLC

(***************************************************************************)
(* Python string primitives, on token sequences.  Positions are 1-based;   *)
(* 0 stands for Python's -1 ("not found").                                 *)
(***************************************************************************)
NL == "\n"
CR == "\r"
TAB == "\t"
SP == " "

\* the characters str.strip() removes, of those a text here can hold
Whitespace == {SP, NL, CR, TAB}

\* s[i:i+len(sub)] == sub
StartsAt(s, sub, i) ==
    /\ i >= 1
    /\ i + Len(sub) - 1 <= Len(s)
    /\ \A k \in 1..Len(sub) : s[i + k - 1] = sub[k]

RECURSIVE FindFrom(_, _, _)
\* str.find(sub, i): the first position >= i where sub occurs, 0 if none
FindFrom(s, sub, i) ==
    IF i + Len(sub) - 1 > Len(s) THEN 0
    ELSE IF StartsAt(s, sub, i) THEN i
    ELSE FindFrom(s, sub, i + 1)

Find(s, sub) == FindFrom(s, sub, 1)

\* sub in s
Contains(s, sub) == Find(s, sub) # 0

RECURSIVE CountFrom(_, _, _)
CountFrom(s, sub, i) ==
    LET p == FindFrom(s, sub, i)
    IN  IF p = 0 THEN 0 ELSE 1 + CountFrom(s, sub, p + Len(sub))

\* A count that reports one occurrence of a text that does not occur.
CountNeverZero(s, sub) ==
    IF sub = <<>> THEN Len(s) + 1
    ELSE IF CountFrom(s, sub, 1) = 0 THEN 1 ELSE CountFrom(s, sub, 1)

\* str.count(sub): the number of NON-overlapping occurrences, scanning from
\* the left; the empty string occurs len(s) + 1 times.
Count(s, sub) ==
    IF sub = <<>> THEN Len(s) + 1 ELSE CountFrom(s, sub, 1)

RECURSIVE Interleave(_, _)
\* "ab".replace("", r) == r + "a" + r + "b" + r
Interleave(s, rep) ==
    IF s = <<>> THEN rep
    ELSE rep \o <<Head(s)>> \o Interleave(Tail(s), rep)

RECURSIVE ReplaceFrom(_, _, _, _)
ReplaceFrom(s, sub, rep, i) ==
    LET p == FindFrom(s, sub, i)
    IN  IF p = 0 THEN SubSeq(s, i, Len(s))
        ELSE SubSeq(s, i, p - 1) \o rep
                 \o ReplaceFrom(s, sub, rep, p + Len(sub))

\* str.replace(sub, rep): every non-overlapping occurrence, left to right
Replace(s, sub, rep) ==
    IF sub = <<>> THEN Interleave(s, rep) ELSE ReplaceFrom(s, sub, rep, 1)

RECURSIVE SplitLines(_)
\* str.splitlines(): a trailing line break opens no further line
SplitLines(s) ==
    IF s = <<>> THEN <<>>
    ELSE LET p == Find(s, <<NL>>)
         IN  IF p = 0 THEN <<s>>
             ELSE <<SubSeq(s, 1, p - 1)>>
                      \o SplitLines(SubSeq(s, p + 1, Len(s)))

RECURSIVE LStrip(_)
LStrip(s) ==
    IF s # <<>> /\ Head(s) \in Whitespace THEN LStrip(Tail(s)) ELSE s

RECURSIVE RStrip(_)
RStrip(s) ==
    IF s # <<>> /\ s[Len(s)] \in Whitespace
    THEN RStrip(SubSeq(s, 1, Len(s) - 1)) ELSE s

\* str.strip()
Strip(s) == RStrip(LStrip(s))

\* The element of a set of one.  A value written {e : x \in {d}} is e with
\* x standing for d, d worked out once.
TheOne(S) == CHOOSE x \in S : TRUE

RECURSIVE Split(_, _)
\* str.split(sep), sep not empty
Split(s, sep) ==
    LET p == Find(s, sep)
    IN  IF p = 0 THEN <<s>>
        ELSE <<SubSeq(s, 1, p - 1)>>
                 \o Split(SubSeq(s, p + Len(sep), Len(s)), sep)

RECURSIVE Join(_, _)
\* sep.join(parts)
Join(parts, sep) ==
    IF parts = <<>> THEN <<>>
    ELSE IF Len(parts) = 1 THEN parts[1]
    ELSE parts[1] \o sep \o Join(Tail(parts), sep)

RECURSIVE Concat(_)
Concat(seqs) ==
    IF seqs = <<>> THEN <<>> ELSE Head(seqs) \o Concat(Tail(seqs))

RECURSIVE SelectSeqIdx(_, _, _)
\* the positions i..Len(s) of s whose element is in keep, in order
SelectSeqIdx(s, keep, i) ==
    IF i > Len(s) THEN <<>>
    ELSE (IF s[i] \in keep THEN <<s[i]>> ELSE <<>>)
             \o SelectSeqIdx(s, keep, i + 1)

(***************************************************************************)
(* validate_block_integrity and parse_search_replace_blocks.               *)
(***************************************************************************)
search_marker == "<<<<<<< SEARCH"
separator == "======="
replace_marker == ">>>>>>> REPLACE"

MarkerLiterals == {<<search_marker>>, <<separator>>, <<replace_marker>>}

\* any(marker in text for marker in [search_marker, separator, replace_marker])
HasMarker(text) == \E m \in MarkerLiterals : Contains(text, m)

Error(msg) == [ok |-> FALSE, msg |-> msg, blocks |-> <<>>]

Parsed(blocks) == [ok |-> TRUE, msg |-> "", blocks |-> blocks]

\* markers: the stripped lines that are one of the three markers, in order
MarkerLines(patch_content) ==
    LET lines == SplitLines(patch_content)
        stripped == [i \in 1..Len(lines) |-> Strip(lines[i])]
    IN  SelectSeqIdx(stripped, MarkerLiterals, 1)

\* for i in range(0, len(markers), 3): if i + 2 < len(markers): ...
BadTriple(markers) ==
    \E k \in 0..(Len(markers) \div 3) :
        /\ 3 * k + 3 <= Len(markers)
        /\ \/ markers[3 * k + 1] # <<search_marker>>
           \/ markers[3 * k + 2] # <<separator>>
           \/ markers[3 * k + 3] # <<replace_marker>>

\* sections = patch_content.split(search_marker); a section of sections[1:]
\* with search_marker in it and find(replace_marker) > find(search_marker)
NestedSection(patch_content) ==
    LET sections == Split(patch_content, <<search_marker>>)
    IN  \E i \in 2..Len(sections) :
            /\ Contains(sections[i], <<search_marker>>)
            /\ Find(sections[i], <<replace_marker>>)
                   > Find(sections[i], <<search_marker>>)

\* validate_block_integrity: Parsed(<<>>) when it returns, Error when it raises
validate_block_integrity(patch_content) ==
    LET search_count == Count(patch_content, <<search_marker>>)
        separator_count == Count(patch_content, <<separator>>)
        replace_count == Count(patch_content, <<replace_marker>>)
    IN  IF ~(search_count = separator_count
             /\ separator_count = replace_count)
        THEN Error("Malformed patch format: Unbalanced markers")
        ELSE IF BadTriple(MarkerLines(patch_content))
        THEN Error("Malformed patch format: Incorrect marker sequence")
        ELSE IF NestedSection(patch_content)
        THEN Error("Malformed patch format: Nested SEARCH marker")
        ELSE Parsed(<<>>)

RECURSIVE FindAllFrom(_, _)
\* re.findall(f"{search_marker}\n(.*?)\n{separator}\n(.*?)\n{replace_marker}",
\*            patch_content, re.DOTALL), scanning from position i.
\* A match that starts at i has its first group end at the first
\* "\n=======\n" at or after i + 2 and its second group end at the first
\* "\n>>>>>>> REPLACE" after that; if no REPLACE follows the first
\* separator, none follows a later one, so backtracking finds nothing more.
\* The scan resumes where a match ended, else at the next position.
FindAllFrom(s, i) ==
    IF i > Len(s) THEN <<>>
    ELSE IF ~StartsAt(s, <<search_marker, NL>>, i) THEN FindAllFrom(s, i + 1)
    ELSE LET p1 == FindFrom(s, <<NL, separator, NL>>, i + 2)
             p2 == IF p1 = 0 THEN 0
                   ELSE FindFrom(s, <<NL, replace_marker>>, p1 + 3)
         IN  IF p2 = 0 THEN FindAllFrom(s, i + 1)
             ELSE <<<<SubSeq(s, i + 2, p1 - 1), SubSeq(s, p1 + 3, p2 - 1)>>>>
                      \o FindAllFrom(s, p2 + 2)

RegexMatches(patch_content) == FindAllFrom(patch_content, 1)

RECURSIVE FirstLine(_, _, _)
\* for j in range(from, len(lines)): if lines[j] == marker: ... break
\* (1-based; 0 when the loop ends without a hit)
FirstLine(lines, marker, from) ==
    IF from > Len(lines) THEN 0
    ELSE IF lines[from] = <<marker>> THEN from
    ELSE FirstLine(lines, marker, from + 1)

RECURSIVE LineScan(_, _, _)
\* the while loop of the alternative parsing; blocks is the list so far
LineScan(lines, i, blocks) ==
    IF i > Len(lines)
    THEN IF blocks # <<>> THEN Parsed(blocks)
         ELSE Error("Invalid patch format. Expected block format")
    ELSE IF lines[i] # <<search_marker>> THEN LineScan(lines, i + 1, blocks)
    ELSE LET separator_idx == FirstLine(lines, separator, i + 1)
             replace_end == IF separator_idx = 0 THEN 0
                            ELSE FirstLine(lines, replace_marker,
                                           separator_idx + 1)
             search_text == Join(SubSeq(lines, i + 1, separator_idx - 1),
                                 <<NL>>)
             replace_text == Join(SubSeq(lines, separator_idx + 1,
                                         replace_end - 1), <<NL>>)
         IN  IF separator_idx = 0
             THEN Error("Invalid format: missing separator")
             ELSE IF replace_end = 0
             THEN Error("Invalid format: missing replace marker")
             ELSE IF HasMarker(search_text)
             THEN Error("Search text contains patch markers")
             ELSE IF HasMarker(replace_text)
             THEN Error("Replace text contains patch markers")
             ELSE LineScan(lines, replace_end + 1,
                           Append(blocks, <<search_text, replace_text>>))

\* An alternative parsing that returns the empty list when it finds no block.
FallbackReturnsEmpty(patch_content) ==
    LET scanned == LineScan(SplitLines(patch_content), 1, <<>>)
    IN  IF ~scanned.ok
           /\ scanned.msg = "Invalid patch format. Expected block format"
        THEN Parsed(<<>>)
        ELSE scanned

\* the "if not matches:" branch of parse_search_replace_blocks
FallbackParse(patch_content) == LineScan(SplitLines(patch_content), 1, <<>>)

\* A check of the matched content that lets every pair through.
CheckMatchesNothing(matches) == Parsed(matches)

\* "Check for markers in matched content": the first offending pair raises
CheckMatches(matches) ==
    IF \E k \in 1..Len(matches) :
           HasMarker(matches[k][1]) \/ HasMarker(matches[k][2])
    THEN LET k == CHOOSE j \in 1..Len(matches) :
                      /\ HasMarker(matches[j][1]) \/ HasMarker(matches[j][2])
                      /\ \A h \in 1..(j - 1) :
                             ~HasMarker(matches[h][1])
                                 /\ ~HasMarker(matches[h][2])
         IN  IF HasMarker(matches[k][1])
             THEN Error("Search text contains patch markers")
             ELSE Error("Replace text contains patch markers")
    ELSE Parsed(matches)

\* parse_search_replace_blocks: Parsed(list of <<search, replace>>) when it
\* returns, Error(message) when it raises ValueError
parse_search_replace_blocks(patch_content) ==
    LET valid == validate_block_integrity(patch_content)
        matches == RegexMatches(patch_content)
    IN  IF ~valid.ok THEN valid
        ELSE IF matches = <<>> THEN FallbackParse(patch_content)
        ELSE CheckMatches(matches)

(***************************************************************************)
(* The requests the model submits.  A patch is written as a list of        *)
(* pieces, a piece as a list of lines, a line as a list of tokens; the     *)
(* patch content is all the lines joined by line breaks.                   *)
(***************************************************************************)
MaxPieces == 3

LineA == <<"a">>
LineB == <<"b">>
\* one line that holds all three markers without being a marker line
LineInline == <<"a", search_marker, separator, replace_marker>>

\* the lines between two markers: none, one text line, one line that holds
\* markers
ParserSections == {<<>>, <<LineA>>, <<LineInline>>}

BlockPiece(search_lines, replace_lines) ==
    <<<<search_marker>>>> \o search_lines \o <<<<separator>>>>
        \o replace_lines \o <<<<replace_marker>>>>

BlockPieces(search_sections, replace_sections) ==
    {BlockPiece(sl, rl) : sl \in search_sections, rl \in replace_sections}

\* a block whose first line repeats the SEARCH marker, followed by a line
\* that holds the two other markers
DoubledHeaderPiece ==
    <<<<search_marker, search_marker>>, LineA, <<separator>>, LineB,
      <<replace_marker>>, <<"a", separator, replace_marker>>>>

LonePieces ==
    {<<<<search_marker>>>>, <<<<separator>>>>, <<<<replace_marker>>>>,
     <<LineA>>, <<<<" ">>>>}

ParserPieces ==
    BlockPieces(ParserSections, ParserSections)
        \cup {DoubledHeaderPiece} \cup LonePieces

RECURSIVE PieceSeqs(_, _)
\* every sequence of at most n pieces
PieceSeqs(pieces, n) ==
    IF n = 0 THEN {<<>>}
    ELSE LET shorter == PieceSeqs(pieces, n - 1)
         IN  shorter \cup {Append(q, x) : q \in shorter, x \in pieces}

PatchOf(piece_seq) == Join(Concat(piece_seq), <<NL>>)


(***************************************************************************)
(* The files a request can name, and what the path checks of patch_file    *)
(* make of each.                                                           *)
(***************************************************************************)
TextFile == "/w/f.txt"
PyFile == "/w/m.py"
RelativeFile == "f.txt"
BinaryFile == "/w/i.png"
OutsideFile == "/o/f.txt"
MissingFile == "/w/none.txt"
PyTestFile == "/w/tests/t.py"

Paths ==
    {TextFile, PyFile, RelativeFile, BinaryFile, OutsideFile, MissingFile,
     PyTestFile}

NoFile == "no file"

\* Path(file_path).is_absolute()
IsAbsolute(path) == path # RelativeFile

\* is_binary_file_extension(file_path)[0]
is_binary_file_extension(path) == path = BinaryFile

\* is_file_in_allowed_directories(file_path, allowed_directories)[0],
\* with allowed_directories == ["/w"]
is_file_in_allowed_directories(path) == path \notin {OutsideFile, RelativeFile}

\* pp.suffix == ".py"
IsPython(path) == path \in {PyFile, PyTestFile}

(***************************************************************************)
(* The failed-edit tracker.  A Python dict is a function whose DOMAIN is   *)
(* the set of its keys.                                                    *)
(***************************************************************************)
\* FAILED_EDITS_HISTORY[file_path][-10:]
HISTORY_LIMIT == 10

\* TOOL_CALL_COUNTER % 100 == 0
GC_EVERY == 100

\* timedelta(hours=1), the clock counting half hours
ONE_HOUR == 2

\* the three advisory thresholds of get_failed_edit_info
SECOND_ATTEMPT == 2
THIRD_ATTEMPT == 3

\* MYPY_FAILURE_COUNTS.get(file_path, 0) >= 3
MYPY_SUPPRESS_AFTER == 3

None == "None"

\* {}
EmptyDict == [k \in {} |-> 0]

\* d.pop(key, None)
Pop(d, key) == [k \in DOMAIN d \ {key} |-> d[k]]

\* d[key] = value
Put(d, key, value) ==
    [k \in DOMAIN d \cup {key} |-> IF k = key THEN value ELSE d[k]]

\* create_patch_params_hash: SHA-256 of "file_path|patch_content", kept as
\* the pair it digests (two requests have one hash iff they are the same)
create_patch_params_hash(path, patch) == <<path, patch>>

\* the block_count of track_failed_edit: 0 when parsing raises
TrackedBlockCount(patch) ==
    LET parsed == parse_search_replace_blocks(patch)
    IN  IF parsed.ok THEN Len(parsed.blocks) ELSE 0

\* s[:n], the oldest entries where the newest are wanted
FirstN(s, n) == IF Len(s) > n THEN SubSeq(s, 1, n) ELSE s

\* s[-n:]
LastN(s, n) == IF Len(s) > n THEN SubSeq(s, Len(s) - n + 1, Len(s)) ELSE s

\* track_failed_edit: the history after the call
track_failed_edit(history, path, patch, failure_stage, error_message, time) ==
    LET old == IF path \in DOMAIN history THEN history[path] ELSE <<>>
        failed_attempt ==
            [datetime |-> time,
             filename |-> path,
             block_count |-> TrackedBlockCount(patch),
             failure_stage |-> failure_stage,
             error_message |-> error_message,
             params_hash |-> create_patch_params_hash(path, patch)]
    IN  Put(history, path, LastN(Append(old, failed_attempt), HISTORY_LIMIT))

\* A clearing that leaves the attempts of the file where they are.
ClearKeepsHistory(history, path) == history

\* clear_failed_edit_history: the history after the call
clear_failed_edit_history(history, path) == Pop(history, path)

\* A filter that lets every attempt through.
KeepsEveryAttempt(attempts, time) == attempts

RECURSIVE Recent(_, _)
\* [attempt for attempt in attempts if attempt["datetime"] >= one_hour_ago]
Recent(attempts, time) ==
    IF attempts = <<>> THEN <<>>
    ELSE (IF Head(attempts).datetime >= time - ONE_HOUR
          THEN <<Head(attempts)>> ELSE <<>>) \o Recent(Tail(attempts), time)

\* A garbage collection that drops the streak of every file.
SweepDropsEveryStreak(history, counts, time) ==
    [history |-> [f \in {g \in DOMAIN history :
                             Recent(history[g], time) # <<>>} |->
                      Recent(history[f], time)],
     counts |-> EmptyDict]

\* the files garbage_collect_failed_edit_history removes
FilesToRemove(history, time) ==
    {f \in DOMAIN history : Recent(history[f], time) = <<>>}

\* garbage_collect_failed_edit_history: the two tables after the call
garbage_collect_failed_edit_history(history, counts, time) ==
    LET gone == FilesToRemove(history, time)
    IN  [history |-> [f \in DOMAIN history \ gone |->
                          Recent(history[f], time)],
         counts |-> [f \in DOMAIN counts \ gone |-> counts[f]]]

\* update_mypy_failure_count: the table after the call
update_mypy_failure_count(counts, path, mypy_passed) ==
    IF mypy_passed THEN Put(counts, path, 0)
    ELSE Put(counts, path,
             (IF path \in DOMAIN counts THEN counts[path] ELSE 0) + 1)

\* should_suppress_mypy_info
should_suppress_mypy_info(counts, path) ==
    (IF path \in DOMAIN counts THEN counts[path] ELSE 0) >= MYPY_SUPPRESS_AFTER

\* the ordinal of get_failed_edit_info: "2nd", "3rd", else f"{n}th"
Ordinal(n) ==
    IF n = SECOND_ATTEMPT THEN <<n, "nd">>
    ELSE IF n = THIRD_ATTEMPT THEN <<n, "rd">>
    ELSE <<n, "th">>

\* the current_block_count of get_failed_edit_info: 1 when parsing raises
CurrentBlockCount(patch) ==
    LET parsed == parse_search_replace_blocks(patch)
    IN  IF parsed.ok THEN Len(parsed.blocks) ELSE 1

Advisory(ordinal, splitting) == [ordinal |-> ordinal, splitting |-> splitting]

\* An advisory that counts the request being made as a failure already.
InfoCountsCurrent(history, path, patch) ==
    LET total_failed_count ==
            (IF path \in DOMAIN history THEN Len(history[path]) ELSE 0) + 1
    IN  IF total_failed_count >= THIRD_ATTEMPT /\ CurrentBlockCount(patch) > 1
        THEN Advisory(Ordinal(total_failed_count), TRUE)
        ELSE IF total_failed_count >= SECOND_ATTEMPT
        THEN Advisory(Ordinal(total_failed_count), FALSE)
        ELSE None

\* get_failed_edit_info: None, or the advisory: its ordinal and whether it
\* carries the "consider splitting this edit" paragraph
get_failed_edit_info(history, path, patch) ==
    IF path \notin DOMAIN history THEN None
    ELSE IF history[path] = <<>> THEN None
    ELSE LET total_failed_count == Len(history[path])
             current_block_count == CurrentBlockCount(patch)
         IN  IF total_failed_count >= THIRD_ATTEMPT /\ current_block_count > 1
             THEN Advisory(Ordinal(total_failed_count), TRUE)
             ELSE IF total_failed_count >= SECOND_ATTEMPT
             THEN Advisory(Ordinal(total_failed_count), FALSE)
             ELSE None

\* A lookup that leaves an empty list behind for a file it did not know.
LookupCreatesEntry(history, path) ==
    IF path \in DOMAIN history THEN history ELSE Put(history, path, <<>>)

\* get_failed_edit_info: the history after the call.  The function tests
\* membership and reads; it assigns to no table.
history_after_get_failed_edit_info(history, path) == history

(***************************************************************************)
(* The fuzzy hint generator.  Its texts are sequences of characters.       *)
(***************************************************************************)
RECURSIVE CollapseBlanks(_)
\* re.sub(r'[ \t]+', ' ', s)
CollapseBlanks(s) ==
    IF s = <<>> THEN <<>>
    ELSE IF Head(s) \in {SP, TAB}
    THEN IF Len(s) > 1 /\ s[2] \in {SP, TAB}
         THEN CollapseBlanks(Tail(s))
         ELSE <<SP>> \o CollapseBlanks(Tail(s))
    ELSE <<Head(s)>> \o CollapseBlanks(Tail(s))

RECURSIVE DropLeadingEmpty(_)
\* while lines and not lines[0]: lines.pop(0)
DropLeadingEmpty(lines) ==
    IF lines # <<>> /\ Head(lines) = <<>> THEN DropLeadingEmpty(Tail(lines))
    ELSE lines

RECURSIVE DropTrailingEmpty(_)
\* while lines and not lines[-1]: lines.pop()
DropTrailingEmpty(lines) ==
    IF lines # <<>> /\ lines[Len(lines)] = <<>>
    THEN DropTrailingEmpty(SubSeq(lines, 1, Len(lines) - 1))
    ELSE lines

normalize_text_for_fuzzy_matching(text) ==
    LET unified == Replace(Replace(text, <<CR, NL>>, <<NL>>), <<CR>>, <<NL>>)
    IN  TheOne({Join(DropTrailingEmpty(DropLeadingEmpty(
                         [i \in 1..Len(split) |-> Strip(split[i])])),
                     <<NL>>) :
                    split \in {Split(CollapseBlanks(unified), <<NL>>)}})

RECURSIVE CommonLen(_, _, _, _, _, _)
\* how far a[i:ahi] and b[j:bhi] agree from their starts
CommonLen(a, i, ahi, b, j, bhi) ==
    IF i <= ahi /\ j <= bhi /\ a[i] = b[j]
    THEN 1 + CommonLen(a, i + 1, ahi, b, j + 1, bhi)
    ELSE 0

\* SequenceMatcher.find_longest_match(alo, ahi, blo, bhi), on the positions
\* alo..ahi of a and blo..bhi of b: the longest common block, of those the
\* one that starts first in a, of those the one that starts first in b.  No
\* character is junk: isjunk is None, and autojunk sets in at 200
\* characters, which no text compared here has.
find_longest_match(a, alo, ahi, b, blo, bhi) ==
    LET starts == {q \in (alo..ahi) \X (blo..bhi) :
                       /\ a[q[1]] = b[q[2]]
                       /\ \/ q[1] = alo
                          \/ q[2] = blo
                          \/ a[q[1] - 1] # b[q[2] - 1]}
        blocks == {[i |-> q[1], j |-> q[2],
                    k |-> CommonLen(a, q[1], ahi, b, q[2], bhi)] :
                       q \in starts}
        Better(x, y) ==
            \/ x.k > y.k
            \/ x.k = y.k /\ x.i < y.i
            \/ x.k = y.k /\ x.i = y.i /\ x.j <= y.j
    IN  TheOne({IF found = {} THEN [i |-> alo, j |-> blo, k |-> 0]
                ELSE CHOOSE x \in found : \A y \in found : Better(x, y) :
                    found \in {blocks}})

RECURSIVE MatchedSize(_, _, _, _, _, _)
\* sum of the sizes of SequenceMatcher.get_matching_blocks(): the longest
\* block, then the same to its left and to its right
MatchedSize(a, alo, ahi, b, blo, bhi) ==
    IF alo > ahi \/ blo > bhi THEN 0
    ELSE TheOne({IF m.k = 0 THEN 0
                 ELSE m.k + MatchedSize(a, alo, m.i - 1, b, blo, m.j - 1)
                          + MatchedSize(a, m.i + m.k, ahi, b, m.j + m.k, bhi) :
                     m \in {find_longest_match(a, alo, ahi, b, blo, bhi)}})

\* difflib.SequenceMatcher(None, a, b).ratio() is 2.0 * m / t: kept as the
\* pair, so that no rounding is guessed
Similarity(a, b) ==
    [m |-> MatchedSize(a, 1, Len(a), b, 1, Len(b)), t |-> Len(a) + Len(b)]

\* ratio >= num / den; the ratio of two empty texts is 1.0
RatioAtLeast(sim, num, den) ==
    IF sim.t = 0 THEN den >= num ELSE 2 * sim.m * den >= num * sim.t

\* the ratio of x is greater than the ratio of y, for texts not both empty
RatioGreater(x, y) == x.m * y.t > y.m * x.t

\* if similarity >= 0.8
SIMILARITY_NUM == 4
SIMILARITY_DEN == 5
\* best_similarity - second_best_similarity >= 0.05
AMBIGUITY_GAP_DEN == 20
\* for line_tolerance in [0, 1, 2]
LINE_TOLERANCE == 2

\* A test of the gap that finds every best match clearly better.
GapAlwaysAbove(x, y) == "above"

\* ratio(x) - ratio(y) compared with 1/20, for texts that are not empty:
\* "above", "below", or "edge" when the difference is 0.05 exactly, and then
\* the rounding of the two divisions decides
GapOf(x, y) ==
    LET lhs == AMBIGUITY_GAP_DEN * (2 * x.m * y.t - 2 * y.m * x.t)
        rhs == x.t * y.t
    IN  IF lhs > rhs THEN "above" ELSE IF lhs = rhs THEN "edge" ELSE "below"

\* the windows of find_fuzzy_matches in the order its three loops visit
\* them: <<start_line, end_line>>, counted from 1
Windows(num_content_lines, num_search_lines) ==
    LET OfStart(tol, start) ==
            LET ends == [k \in 1..(2 * tol + 1) |->
                             start + num_search_lines - 1 + (k - 1 - tol)]
                Fits(e) == e <= num_content_lines /\ e >= start
                fitting == SelectSeq(ends, Fits)
            IN  [k \in 1..Len(fitting) |-> <<start, fitting[k]>>]
        OfTolerance(tol) ==
            Concat([start \in 1..num_content_lines |-> OfStart(tol, start)])
    IN  Concat([t \in 1..(LINE_TOLERANCE + 1) |-> OfTolerance(t - 1)])

RECURSIVE SortBySimilarity(_)
\* matches.sort(key=lambda x: x[3], reverse=True): stable, so matches of
\* one similarity stay in the order they were found
SortBySimilarity(matches) ==
    LET Beaten(ms, i) == \/ \E j \in 1..Len(ms) :
                                RatioGreater(ms[j].similarity,
                                             ms[i].similarity)
                         \/ \E j \in 1..(i - 1) :
                                ~RatioGreater(ms[i].similarity,
                                              ms[j].similarity)
        Rest(ms, top) == [k \in 1..(Len(ms) - 1) |->
                              IF k < top THEN ms[k] ELSE ms[k + 1]]
    IN  TheOne({IF ms = <<>> THEN <<>>
                ELSE TheOne({<<ms[top]>> \o SortBySimilarity(Rest(ms, top)) :
                                 top \in {CHOOSE i \in 1..Len(ms) :
                                              ~Beaten(ms, i)}}) :
                    ms \in {matches}})

RECURSIVE WithoutOverlaps(_, _)
\* the loop that keeps a match when it overlaps none of the matches kept
WithoutOverlaps(matches, kept) ==
    LET Overlaps(m, ks) == \E i \in 1..Len(ks) :
                               ~(m.end_line < ks[i].start_line
                                     \/ m.start_line > ks[i].end_line)
    IN  TheOne({IF ms = <<>> THEN ks
                ELSE WithoutOverlaps(Tail(ms),
                                     IF Overlaps(Head(ms), ks) THEN ks
                                     ELSE Append(ks, Head(ms))) :
                    ms \in {matches}, ks \in {kept}})

\* find_fuzzy_matches(search_text, content); on_edge is what the test of
\* the 0.05 gap yields when the difference is 0.05 exactly
find_fuzzy_matches(search_text, content, on_edge) ==
    LET Candidate(content_lines, normalized_search, w) ==
            TheOne({[start_line |-> w[1], end_line |-> w[2], text |-> text,
                     similarity |-> TheOne({Similarity(normalized_search,
                                                       normalized_candidate) :
                         normalized_candidate \in
                             {normalize_text_for_fuzzy_matching(text)}})] :
                        text \in {Join(SubSeq(content_lines, w[1], w[2]),
                                       <<NL>>)}})
        Close(c) == RatioAtLeast(c.similarity, SIMILARITY_NUM, SIMILARITY_DEN)
        Matches(content_lines, normalized_search) ==
            TheOne({SelectSeq([k \in 1..Len(windows) |->
                                   Candidate(content_lines, normalized_search,
                                             windows[k])],
                              Close) :
                        windows \in
                            {Windows(Len(content_lines),
                                     Len(Split(normalized_search, <<NL>>)))}})
        Unambiguous(filtered) ==
            IF Len(filtered) <= 1 THEN filtered
            ELSE TheOne({IF gap = "above" \/ (gap = "edge" /\ on_edge)
                         THEN <<filtered[1]>>
                         ELSE <<>> :
                             gap \in {GapOf(filtered[1].similarity,
                                            filtered[2].similarity)}})
    IN  TheOne({IF Strip(normalized_search) = <<>> THEN <<>>
                ELSE TheOne({Unambiguous(filtered) :
                                 filtered \in
                                     {WithoutOverlaps(
                                          SortBySimilarity(
                                              Matches(content_lines,
                                                      normalized_search)),
                                          <<>>)}}) :
                    normalized_search \in
                        {normalize_text_for_fuzzy_matching(search_text)},
                    content_lines \in {Split(content, <<NL>>)}})

\* the safeguards of generate_fuzzy_match_hint
HINT_MIN_CHARS == 20
HINT_MAX_CHARS == 2000
HINT_MIN_LINES == 2
HINT_MAX_LINES == 50
\* context lines (3 before and 3 after)
HINT_CONTEXT == 3

\* len([line for line in text.split('\n') if line.strip()])
NonEmptyLines(text) ==
    TheOne({Cardinality({i \in 1..Len(lines) : Strip(lines[i]) # <<>>}) :
                lines \in {Split(text, <<NL>>)}})

\* Safeguards that let every search text through.
NoSafeguards(search_text) == TRUE

\* the four safeguards: the search text may be matched
safeguards_pass(search_text) ==
    \E search_text_stripped \in {Strip(search_text)} :
        /\ Len(search_text_stripped) >= HINT_MIN_CHARS
        /\ Len(search_text_stripped) <= HINT_MAX_CHARS
        /\ \E num_lines \in {NonEmptyLines(search_text_stripped)} :
               /\ num_lines >= HINT_MIN_LINES
               /\ num_lines <= HINT_MAX_LINES

\* the None of generate_fuzzy_match_hint: a hint has a line at least
NoHint == <<>>

\* generate_fuzzy_match_hint(search_text, content, file_path): NoHint, or
\* the lines of the hint under its heading, each with its number, its text
\* and whether it carries "<-- likely match"
generate_fuzzy_match_hint(search_text, content, on_edge) ==
    LET HintOf(m, content_lines) ==
            LET context_start ==
                    IF m.start_line - HINT_CONTEXT > 1
                    THEN m.start_line - HINT_CONTEXT ELSE 1
                context_end ==
                    IF m.end_line + HINT_CONTEXT < Len(content_lines)
                    THEN m.end_line + HINT_CONTEXT
                    ELSE Len(content_lines)
            IN  [k \in 1..(context_end - context_start + 1) |->
                     LET n == context_start + k - 1
                     IN  [line_num |-> n,
                          line_content |-> content_lines[n],
                          likely_match |->
                              n >= m.start_line /\ n <= m.end_line]]
    IN  IF ~safeguards_pass(search_text) THEN NoHint
        ELSE TheOne({IF Len(fuzzy_matches) # 1 THEN NoHint
                     ELSE HintOf(fuzzy_matches[1], content_lines) :
                         fuzzy_matches \in
                             {find_fuzzy_matches(search_text, content,
                                                 on_edge)},
                         content_lines \in {Split(content, <<NL>>)}})

(***************************************************************************)
(* patch_file, one request at a time.  pc is the place the handler has     *)
(* reached; "idle" is between two requests.                                *)
(***************************************************************************)
VARIABLES
    cfg,                   \* what the run may submit: [pool, max_calls],
                           \* and the pieces a lone patch was written as
    now,                   \* datetime.now(), in half hours
    disk,                  \* path -> content of the file, or NoFile
    FAILED_EDITS_HISTORY,  \* path -> list of failed attempts
    TOOL_CALL_COUNTER,
    MYPY_FAILURE_COUNTS,   \* path -> consecutive mypy failures
    pc,
    file_path,
    patch_content,
    awareness_message,     \* what the request printed, or None
    original_content,
    blocks,
    block_idx,             \* the i + 1 of the loop over blocks
    current_content,
    applied_blocks,
    error,                 \* the exception the try block raised
    qa_results,            \* the dict of run_python_qa_pipeline, and the
                           \* tools the run started
    patch_result,          \* the text to return, as it is put together
    response,              \* how the last request ended
    disk_at_start,         \* the disk as the request found it
    writes,                \* writes to the file by the current request
    trace,                 \* the requests that ended: response, disk
                           \* before and after
    fuzzy                  \* a call of generate_fuzzy_match_hint on its
                           \* own: its arguments and what it returned

globals == <<FAILED_EDITS_HISTORY, TOOL_CALL_COUNTER, MYPY_FAILURE_COUNTS>>
request == <<file_path, patch_content, awareness_message, original_content,
             disk_at_start>>
locals == <<blocks, block_idx, current_content, applied_blocks, error,
            qa_results, patch_result>>
vars == <<cfg, now, disk, globals, pc, request, locals, response, writes,
          trace, fuzzy>>

\* no call of generate_fuzzy_match_hint on its own is made
NoFuzzy ==
    [search_text |-> <<>>, content |-> <<>>, returned |-> FALSE,
     hint |-> NoHint]

\* the entry of trace for a request that ends with response resp: what was
\* asked, the advisory it printed, the disk before and after, the time
Ended(path, patch, advisory, resp, before, after) ==
    [file_path |-> path, patch_content |-> patch, advisory |-> advisory,
     response |-> resp, before |-> before, after |-> after, time |-> now]

\* the exception of a request: its message, and the block index and match
\* count the message embeds (0 when it embeds none)
Exception(type, msg, block, count) ==
    [type |-> type, msg |-> msg, block |-> block, count |-> count]

NoError == Exception(None, "", 0, 0)

Raised(exc) == [status |-> "raised", error |-> exc, applied |-> 0]

\* "Successfully applied {applied_blocks} patch blocks to {file_path}", and
\* the QA section appended to it: none, the no-venv warning, or the results
Success(result) ==
    [status |-> "success", error |-> NoError, applied |-> result.applied,
     qa |-> result.qa, mypy_shown |-> result.mypy_shown]

NoResponse == [status |-> None, error |-> NoError, applied |-> 0]

\* A patch_file that collects garbage in every call.
SweepAlways(counter) == TRUE

\* if TOOL_CALL_COUNTER % 100 == 0
sweep_due(counter) == counter % GC_EVERY = 0

\* The checks of patch_file that come before its try block: the exception
\* one of them raises, or NoError.
EarlyCheck(path, files) ==
    IF ~IsAbsolute(path)
    THEN Exception("ValueError", "Invalid or relative path", 0, 0)
    ELSE IF is_binary_file_extension(path)
    THEN Exception("ValueError",
                   "Rejected: patch_file tool should only be used to edit text files",
                   0, 0)
    ELSE IF ~is_file_in_allowed_directories(path)
    THEN Exception("PermissionError",
                   "is not in any of the allowed directories", 0, 0)
    ELSE IF files[path] = NoFile
    THEN Exception("FileNotFoundError", "does not exist", 0, 0)
    ELSE NoError

\* The failure_stage the except block derives from the text of the message.
FailureStage(type, msg) ==
    CASE msg = "Invalid or relative path" -> "path_validation"
      [] msg = "Rejected: patch_file tool should only be used to edit text files"
             -> "binary_file_check"
      [] msg = "is not in any of the allowed directories" -> "directory_access"
      \* "does not exist" or "FileNotFoundError" in str(type(e))
      [] msg = "does not exist" \/ type = "FileNotFoundError"
             -> "file_existence"
      \* "search-replace blocks", "patch markers" or "Invalid patch format"
      [] msg \in {"No valid search-replace blocks found",
                  "Search text contains patch markers",
                  "Replace text contains patch markers",
                  "Invalid patch format. Expected block format"}
             -> "patch_parsing"
      \* "appears" and "times", or "Could not find the search text"
      [] msg \in {"The search text appears {count} times in the file",
                  "Could not find the search text in the file"}
             -> "block_application"
      \* "Malformed patch format: ..." and "Invalid format: missing ..."
      \* hold none of the texts looked for
      [] OTHER -> "general_error"

(***************************************************************************)
(* The QA pipeline.  cfg.qa holds what the server was started with: the    *)
(* environment's PATCH_MCP_QA_MAX_ITERATIONS and the --no-ruff, --no-black *)
(* and --no-mypy flags.  What the tools and the file system do is chosen   *)
(* anew in every step.                                                     *)
(***************************************************************************)
\* int(os.getenv("PATCH_MCP_QA_MAX_ITERATIONS", "4"))
QA_MAX_ITERATIONS_DEFAULT == 4

\* tool_seconds is not a setting of the server: it is the set of the
\* seconds a tool may take in the run, here none to speak of
DefaultQA ==
    [QA_MAX_ITERATIONS |-> QA_MAX_ITERATIONS_DEFAULT, SKIP_RUFF |-> FALSE,
     SKIP_BLACK |-> FALSE, SKIP_MYPY |-> FALSE, SKIP_MYPY_ON_TESTS |-> TRUE,
     tool_seconds |-> {0}]

\* int(os.getenv("PATCH_MCP_QA_CMD_TIMEOUT", "15")), in seconds
QA_CMD_TIMEOUT == 15
\* int(os.getenv("PATCH_MCP_QA_WALL_TIME", "20")), in seconds
QA_WALL_TIME == 20

Tools == {"ruff", "black", "mypy"}

\* patch_file has not assigned qa_results
NoQA ==
    [qa_performed |-> FALSE, iterations_used |-> 0, ruff_status |-> None,
     black_status |-> None, mypy_status |-> None, errors |-> {},
     warnings |-> {}, started |-> <<>>, elapsed |-> 0,
     exits |-> [tool \in Tools |-> None], captured |-> {}]

\* the qa_results run_python_qa_pipeline starts from.  Four fields are not
\* keys of the dict.  elapsed is time.monotonic() - start_time, in seconds.
\* exits is the return code of the last run of each tool, and captured the
\* tools whose stdout and stderr the dict holds.
\* started is the log of the run: the tools in the order they were started,
\* "late" before a tool started with the wall time used up, "fixed" after a
\* ruff that rewrote the file, "unfixable" after a ruff that said so,
\* "formatted" after a black that rewrote the file, and "changed" when the
\* file was found newer than before the pass
InitialQA == [NoQA EXCEPT !.qa_performed = TRUE]

\* patch_result before it is assigned: the blocks applied, the kind of QA
\* text ("none", "no_venv" or "results") and what the QA text says of mypy
\* ("nothing", "passed" for the status line, "failed" for its output)
NoPatchResult == [applied |-> 0, qa |-> "none", mypy_shown |-> "nothing"]

\* "tests" in file_abs_lower
InTests(path) == path = PyTestFile

\* A server that runs ruff whatever --no-ruff says.
AlwaysRuff == TRUE

do_ruff == ~cfg.qa.SKIP_RUFF
do_black == ~cfg.qa.SKIP_BLACK
\* not SKIP_MYPY and (not SKIP_MYPY_ON_TESTS or "tests" not in file_abs_lower)
do_mypy ==
    ~cfg.qa.SKIP_MYPY /\ (~cfg.qa.SKIP_MYPY_ON_TESTS \/ ~InTests(file_path))

\* max(1, QA_MAX_ITERATIONS)
max_iterations ==
    IF cfg.qa.QA_MAX_ITERATIONS > 1 THEN cfg.qa.QA_MAX_ITERATIONS ELSE 1

\* A bound the loop may overrun by one pass.
OnePassMore == IF do_ruff /\ do_black THEN max_iterations + 1 ELSE 1

\* max_iterations if (do_ruff and do_black) else 1
effective_iterations == IF do_ruff /\ do_black THEN max_iterations ELSE 1

TimedOutMsg == "QA timed out"
LimitMsg == "QA pipeline reached iteration limit"

\* the return codes of a tool that matter: -1 (timeout, or could not be
\* run), nonzero with "unfixable" in stderr, nonzero otherwise, 0
ReturnCodes == {"-1", "unfixable", "nonzero", "0"}

\* the seconds a tool may take when it is slow: each is run with
\* timeout=QA_CMD_TIMEOUT
Durations == {d \in {0, 7, 14} : d < QA_CMD_TIMEOUT}

\* time.monotonic() - start_time > QA_WALL_TIME
wall_expired(q) == q.elapsed > QA_WALL_TIME

\* the log of q with a tool started now
Start(q, tool) ==
    IF q.elapsed > QA_WALL_TIME
    THEN Append(Append(q.started, "late"), tool)
    ELSE Append(q.started, tool)

\* A loop that goes round again whenever the file is newer.
IteratesWithoutRuff(newer) == newer

\* A loop that never goes round again.
NeverIterates(newer) == FALSE

\* do_ruff and new_mod_time > original_mod_time
iterates(newer) == do_ruff /\ newer

\* A linter whose unfixable diagnostics do not end the run.
StopsOnTimeoutOnly(rc) == rc = "-1"

\* A pipeline that goes on after a ruff that timed out.
StopsOnUnfixableOnly(rc) == rc = "unfixable"

\* ruff_return_code == -1, or nonzero with "unfixable" in stderr.lower()
ruff_stops(rc) == rc \in {"-1", "unfixable"}

\* One pass of the loop over q, given what the first read of the
\* modification time, ruff, black and the second read do: the dict after
\* the pass, and how the pass ends ("return", "raise", "continue" or
\* "break").  ruff and black each take their seconds and may rewrite the
\* file; the file is newer after the pass when either did.
Pass(q, stat_fails, ruff, black, restat_raises) ==
    IF wall_expired(q)
    THEN [qa |-> [q EXCEPT !.warnings = @ \cup {TimedOutMsg}],
          ends |-> "return"]
    ELSE
    LET q1 == [q EXCEPT !.iterations_used = @ + 1]
    IN  IF stat_fails
        THEN [qa |-> [q1 EXCEPT !.ruff_status = "failed",
                                !.black_status = "failed",
                                !.mypy_status = "failed",
                                !.errors = @ \cup {"File not found or inaccessible"}],
              ends |-> "return"]
        ELSE
        LET run1 == [q1 EXCEPT !.started =
                                   IF ruff.writes
                                   THEN Append(Start(q1, "ruff"), "fixed")
                                   ELSE Start(q1, "ruff"),
                               !.elapsed = @ + ruff.took,
                               !.exits["ruff"] = ruff.rc]
            ran == IF ruff.rc = "unfixable"
                   THEN [run1 EXCEPT !.started = Append(@, "unfixable")]
                   ELSE run1
            q2 == IF ~do_ruff THEN q1
                  ELSE IF ruff_stops(ruff.rc)
                  THEN [ran EXCEPT !.ruff_status = "failed",
                                   !.captured = @ \cup {"ruff"}]
                  ELSE IF ruff.rc = "nonzero"
                  THEN [ran EXCEPT !.ruff_status = "warnings",
                                   !.warnings = @ \cup {"Ruff warnings"}]
                  ELSE [ran EXCEPT !.ruff_status = "passed"]
        IN  IF do_ruff /\ ruff_stops(ruff.rc)
            THEN [qa |-> q2, ends |-> "return"]
            ELSE IF ~do_black
            THEN [qa |-> q2, ends |-> "break"]
            ELSE
            LET run == [q2 EXCEPT !.started =
                                      IF black.writes
                                      THEN Append(Start(q2, "black"),
                                                  "formatted")
                                      ELSE Start(q2, "black"),
                                  !.elapsed = @ + black.took,
                                  !.exits["black"] = black.rc]
                newer == (do_ruff /\ ruff.writes) \/ black.writes
            IN  IF black.rc = "-1"
                THEN [qa |-> [run EXCEPT !.black_status = "failed",
                                         !.captured = @ \cup {"black"}],
                      ends |-> "return"]
                ELSE
                LET q3 == IF black.rc = "0"
                          THEN [run EXCEPT !.black_status = "passed"]
                          ELSE [run EXCEPT !.black_status = "warnings",
                                           !.warnings = @ \cup {"Black warnings"}]
                IN  IF restat_raises
                    THEN [qa |-> q3, ends |-> "raise"]
                    ELSE IF newer
                    THEN [qa |-> [q3 EXCEPT !.started = Append(@, "changed")],
                          ends |-> IF iterates(newer) THEN "continue"
                                   ELSE "break"]
                    ELSE [qa |-> q3, ends |-> "break"]

\* what a tool may do in one run: its return code, the seconds it took and
\* whether it rewrote the file; -1 is the timeout or a tool that could not
\* be run, and a tool killed at the timeout may have written already
ToolRuns(codes) ==
    {[rc |-> rc, took |-> t, writes |-> w] :
         rc \in codes, t \in cfg.qa.tool_seconds, w \in BOOLEAN}

\* The entry of patch_file: the counter, the periodic garbage collection,
\* the advisory, the path checks and the read of the file.
PatchFileStart ==
    /\ pc = "idle"
    /\ TOOL_CALL_COUNTER < cfg.max_calls
    /\ \E r \in cfg.pool :
        LET counter == TOOL_CALL_COUNTER + 1
            swept == IF sweep_due(counter)
                     THEN garbage_collect_failed_edit_history(
                              FAILED_EDITS_HISTORY, MYPY_FAILURE_COUNTS, now)
                     ELSE [history |-> FAILED_EDITS_HISTORY,
                           counts |-> MYPY_FAILURE_COUNTS]
            early == EarlyCheck(r.file_path, disk)
            info == get_failed_edit_info(swept.history, r.file_path,
                                         r.patch_content)
        IN  /\ TOOL_CALL_COUNTER' = counter
            /\ FAILED_EDITS_HISTORY' =
                   history_after_get_failed_edit_info(swept.history,
                                                      r.file_path)
            /\ MYPY_FAILURE_COUNTS' = swept.counts
            /\ file_path' = r.file_path
            /\ patch_content' = r.patch_content
            /\ awareness_message' = info
            /\ disk_at_start' = disk
            /\ writes' = 0
            /\ blocks' = <<>>
            /\ block_idx' = 0
            /\ applied_blocks' = 0
            /\ error' = NoError
            /\ qa_results' = NoQA
            /\ patch_result' = NoPatchResult
            /\ IF early # NoError
               THEN /\ pc' = "idle"
                    /\ response' = Raised(early)
                    /\ original_content' = <<>>
                    /\ current_content' = <<>>
                    /\ trace' = Append(trace,
                                        Ended(r.file_path, r.patch_content,
                                              info, Raised(early), disk,
                                              disk))
               ELSE /\ pc' = "parse"
                    /\ response' = NoResponse
                    /\ original_content' = disk[r.file_path]
                    /\ current_content' = <<>>
                    /\ UNCHANGED trace
    /\ UNCHANGED <<cfg, fuzzy, now, disk>>

\* blocks = parse_search_replace_blocks(patch_content); if not blocks: raise
ParseStep ==
    /\ pc = "parse"
    /\ LET parsed == parse_search_replace_blocks(patch_content)
       IN  IF ~parsed.ok
           THEN /\ error' = Exception("ValueError", parsed.msg, 0, 0)
                /\ pc' = "except"
                /\ UNCHANGED <<blocks, block_idx, current_content>>
           ELSE IF parsed.blocks = <<>>
           THEN /\ error' = Exception("ValueError",
                                      "No valid search-replace blocks found",
                                      0, 0)
                /\ pc' = "except"
                /\ UNCHANGED <<blocks, block_idx, current_content>>
           ELSE /\ blocks' = parsed.blocks
                /\ current_content' = original_content
                /\ block_idx' = 1
                /\ pc' = "apply"
                /\ UNCHANGED error
    /\ UNCHANGED <<cfg, fuzzy, now, disk, globals, request, applied_blocks,
                   qa_results, patch_result, response, writes, trace>>

\* A loop body that counts and replaces in the file as it was read, not in
\* the buffer the earlier blocks produced.
ApplyToOriginal ==
    /\ pc = "apply"
    /\ LET search_text == blocks[block_idx][1]
           replace_text == blocks[block_idx][2]
           count == Count(original_content, search_text)
       IN  IF count = 1
           THEN /\ current_content' =
                       Replace(original_content, search_text, replace_text)
                /\ applied_blocks' = applied_blocks + 1
                /\ block_idx' = block_idx + 1
                /\ pc' = IF block_idx = Len(blocks) THEN "write" ELSE "apply"
                /\ UNCHANGED error
           ELSE /\ error' = Exception("ValueError",
                                      "Could not find the search text in the file",
                                      block_idx, 0)
                /\ pc' = "except"
                /\ UNCHANGED <<current_content, applied_blocks, block_idx>>
    /\ UNCHANGED <<cfg, fuzzy, now, disk, globals, request, blocks, qa_results,
                   patch_result, response, writes, trace>>

\* A loop body that writes the buffer to the file after every block.
ApplyWritesThrough ==
    /\ pc = "apply"
    /\ LET search_text == blocks[block_idx][1]
           replace_text == blocks[block_idx][2]
           count == Count(current_content, search_text)
       IN  IF count = 1
           THEN /\ current_content' =
                       Replace(current_content, search_text, replace_text)
                /\ disk' = [disk EXCEPT ![file_path] = current_content']
                /\ applied_blocks' = applied_blocks + 1
                /\ block_idx' = block_idx + 1
                /\ pc' = IF block_idx = Len(blocks) THEN "write" ELSE "apply"
                /\ UNCHANGED error
           ELSE IF count > 1
           THEN /\ error' = Exception("ValueError",
                                      "The search text appears {count} times in the file",
                                      block_idx, count)
                /\ pc' = "except"
                /\ UNCHANGED <<current_content, applied_blocks, block_idx,
                               disk>>
           ELSE /\ error' = Exception("ValueError",
                                      "Could not find the search text in the file",
                                      block_idx, 0)
                /\ pc' = "except"
                /\ UNCHANGED <<current_content, applied_blocks, block_idx,
                               disk>>
    /\ UNCHANGED <<cfg, fuzzy, now, globals, request, blocks, qa_results,
                   patch_result, response, writes, trace>>

\* One pass of "for i, (search_text, replace_text) in enumerate(blocks)".
ApplyBlock ==
    /\ pc = "apply"
    /\ LET search_text == blocks[block_idx][1]
           replace_text == blocks[block_idx][2]
           count == Count(current_content, search_text)
       IN  IF count = 1
           THEN /\ current_content' =
                       Replace(current_content, search_text, replace_text)
                /\ applied_blocks' = applied_blocks + 1
                /\ block_idx' = block_idx + 1
                /\ pc' = IF block_idx = Len(blocks) THEN "write" ELSE "apply"
                /\ UNCHANGED error
           ELSE IF count > 1
           THEN /\ error' = Exception("ValueError",
                                      "The search text appears {count} times in the file",
                                      block_idx, count)
                /\ pc' = "except"
                /\ UNCHANGED <<current_content, applied_blocks, block_idx>>
           ELSE /\ error' = Exception("ValueError",
                                      "Could not find the search text in the file",
                                      block_idx, 0)
                /\ pc' = "except"
                /\ UNCHANGED <<current_content, applied_blocks, block_idx>>
    /\ UNCHANGED <<cfg, fuzzy, now, disk, globals, request, blocks, qa_results,
                   patch_result, response, writes, trace>>

\* with open(pp, "w") as f: f.write(current_content); patch_result = ...
WriteFile ==
    /\ pc = "write"
    /\ disk' = [disk EXCEPT ![file_path] = current_content]
    /\ writes' = writes + 1
    /\ patch_result' = [NoPatchResult EXCEPT !.applied = applied_blocks]
    /\ pc' = IF IsPython(file_path) THEN "qa" ELSE "finish"
    /\ UNCHANGED <<cfg, fuzzy, now, globals, request, blocks, block_idx,
                   current_content, applied_blocks, error, qa_results,
                   response, trace>>

\* python_exe = find_venv_directory(file_path): without one the warning is
\* appended to patch_result; with one run_python_qa_pipeline starts, and
\* returns at once when every tool is disabled.
QAStart ==
    /\ pc = "qa"
    /\ \E venv_found \in BOOLEAN :
        IF ~venv_found
        THEN /\ patch_result' = [patch_result EXCEPT !.qa = "no_venv"]
             /\ pc' = "finish"
             /\ UNCHANGED qa_results
        ELSE IF ~do_ruff /\ ~do_black /\ ~do_mypy
        THEN /\ qa_results' =
                    [NoQA EXCEPT !.warnings =
                                     {"QA disabled by server configuration"}]
             /\ pc' = "qa_report"
             /\ UNCHANGED patch_result
        ELSE /\ qa_results' = InitialQA
             /\ pc' = "qa_pass"
             /\ UNCHANGED patch_result
    /\ UNCHANGED <<cfg, fuzzy, now, disk, globals, request, blocks, block_idx,
                   current_content, applied_blocks, error, response, writes,
                   trace>>

\* One pass of "while iteration < effective_iterations", and the test of
\* the iteration limit when the loop is left.
QAPass ==
    /\ pc = "qa_pass"
    /\ qa_results.iterations_used < effective_iterations
    /\ \E stat_fails \in BOOLEAN, ruff \in ToolRuns(ReturnCodes),
          black \in ToolRuns(ReturnCodes \ {"unfixable"}),
          restat_raises \in BOOLEAN :
        LET pass == Pass(qa_results, stat_fails, ruff, black, restat_raises)
            again == /\ pass.ends = "continue"
                     /\ pass.qa.iterations_used < effective_iterations
        IN  IF pass.ends = "return"
            THEN /\ qa_results' = pass.qa
                 /\ pc' = "qa_report"
                 /\ UNCHANGED error
            ELSE IF pass.ends = "raise"
            THEN /\ qa_results' = pass.qa
                 /\ error' = Exception("FileNotFoundError",
                                       "No such file or directory", 0, 0)
                 /\ pc' = "except"
            ELSE IF again
            THEN /\ qa_results' = pass.qa
                 /\ pc' = "qa_pass"
                 /\ UNCHANGED error
            ELSE IF pass.qa.iterations_used >= effective_iterations
            THEN /\ qa_results' =
                        [pass.qa EXCEPT !.warnings = @ \cup {LimitMsg}]
                 /\ pc' = "qa_report"
                 /\ UNCHANGED error
            ELSE /\ qa_results' = pass.qa
                 /\ pc' = "qa_mypy"
                 /\ UNCHANGED error
    /\ UNCHANGED <<cfg, fuzzy, now, disk, globals, request, blocks, block_idx,
                   current_content, applied_blocks, patch_result, response,
                   writes, trace>>

\* A mypy whose nonzero exit is a warning, as it is for ruff and black.
MypyWarns(rc) ==
    IF rc = "0" THEN "passed" ELSE IF rc = "-1" THEN "failed" ELSE "warnings"

\* mypy_status after a run of mypy that returned rc
mypy_status_of(rc) == IF rc = "0" THEN "passed" ELSE "failed"

\* Step 3 of the pipeline: mypy, unless disabled or out of time.
QAMypy ==
    /\ pc = "qa_mypy"
    /\ \E mypy_rc \in ReturnCodes \ {"unfixable"} :
        qa_results' =
            IF ~do_mypy THEN qa_results
            ELSE IF wall_expired(qa_results)
            THEN [qa_results EXCEPT !.warnings = @ \cup {TimedOutMsg}]
            ELSE [qa_results EXCEPT
                      !.started = Start(qa_results, "mypy"),
                      !.exits["mypy"] = mypy_rc,
                      !.mypy_status = mypy_status_of(mypy_rc),
                      !.captured = IF mypy_rc = "0" THEN @
                                   ELSE @ \cup {"mypy"}]
    /\ pc' = "qa_report"
    /\ UNCHANGED <<cfg, fuzzy, now, disk, globals, request, blocks, block_idx,
                   current_content, applied_blocks, error, patch_result,
                   response, writes, trace>>

\* A summary that is not held back.
AlwaysShown(mypy_status, suppress_mypy) ==
    IF mypy_status \in {"passed", "failed"} THEN mypy_status ELSE "nothing"

\* what qa_summary says of mypy: "- MyPy: passed", the entry of mypy in
\* tools_with_output, or nothing
mypy_summary(mypy_status, suppress_mypy) ==
    IF suppress_mypy THEN "nothing"
    ELSE IF mypy_status = "passed" THEN "passed"
    ELSE IF mypy_status = "failed" THEN "failed"
    ELSE "nothing"

\* Back in patch_file: the streak of the file follows mypy, and the summary
\* is appended to patch_result.
QAReport ==
    /\ pc = "qa_report"
    /\ LET mypy_passed == qa_results.mypy_status = "passed"
           counts == update_mypy_failure_count(MYPY_FAILURE_COUNTS,
                                               file_path, mypy_passed)
           suppress_mypy == should_suppress_mypy_info(counts, file_path)
       IN  /\ MYPY_FAILURE_COUNTS' = counts
           /\ patch_result' = [patch_result EXCEPT
                                   !.qa = "results",
                                   !.mypy_shown =
                                       mypy_summary(qa_results.mypy_status,
                                                    suppress_mypy)]
    /\ pc' = "finish"
    /\ UNCHANGED <<cfg, fuzzy, now, disk, FAILED_EDITS_HISTORY, TOOL_CALL_COUNTER,
                   request, blocks, block_idx, current_content,
                   applied_blocks, error, qa_results, response, writes,
                   trace>>

\* clear_failed_edit_history(file_path); return patch_result.  The two
\* locals of the QA section go with the call.
Finish ==
    /\ pc = "finish"
    /\ FAILED_EDITS_HISTORY' =
           clear_failed_edit_history(FAILED_EDITS_HISTORY, file_path)
    /\ response' = Success(patch_result)
    /\ trace' = Append(trace, Ended(file_path, patch_content,
                                    awareness_message,
                                    Success(patch_result), disk_at_start,
                                    disk))
    /\ qa_results' = NoQA
    /\ patch_result' = NoPatchResult
    /\ pc' = "idle"
    /\ UNCHANGED <<cfg, fuzzy, now, disk, TOOL_CALL_COUNTER, MYPY_FAILURE_COUNTS,
                   request, blocks, block_idx, current_content,
                   applied_blocks, error, writes>>

\* except Exception as e: track_failed_edit(...); raise RuntimeError(...)
Except ==
    /\ pc = "except"
    /\ FAILED_EDITS_HISTORY' =
           track_failed_edit(FAILED_EDITS_HISTORY, file_path, patch_content,
                             FailureStage(error.type, error.msg),
                             error, now)
    /\ response' = Raised([error EXCEPT !.type = "RuntimeError"])
    /\ trace' = Append(trace, Ended(file_path, patch_content,
                                    awareness_message,
                                    Raised([error EXCEPT
                                               !.type = "RuntimeError"]),
                                    disk_at_start, disk))
    /\ qa_results' = NoQA
    /\ patch_result' = NoPatchResult
    /\ pc' = "idle"
    /\ UNCHANGED <<cfg, fuzzy, now, disk, TOOL_CALL_COUNTER, MYPY_FAILURE_COUNTS,
                   request, blocks, block_idx, current_content,
                   applied_blocks, error, writes>>

\* Half an hour passes between two requests.
MaxTime == 4

Tick ==
    /\ pc = "idle"
    /\ now < MaxTime
    /\ now' = now + 1
    /\ UNCHANGED <<cfg, fuzzy, disk, globals, pc, request, locals, response, writes,
                   trace>>

\* A call of track_failed_edit on its own, as the except block and the unit
\* tests make it: trace keeps what was passed.
TrackFailedEdit ==
    /\ pc = "idle"
    /\ Len(trace) < cfg.max_calls
    /\ \E r \in cfg.pool :
        LET e == Exception("ValueError",
                           "Could not find the search text in the file", 1, 0)
        IN  /\ FAILED_EDITS_HISTORY' =
                   track_failed_edit(FAILED_EDITS_HISTORY, r.file_path,
                                     r.patch_content,
                                     FailureStage(e.type, e.msg), e,
                                     now)
            /\ trace' = Append(trace, Ended(r.file_path, r.patch_content,
                                            None, Raised(e), disk, disk))
    /\ UNCHANGED <<cfg, fuzzy, now, disk, TOOL_CALL_COUNTER, MYPY_FAILURE_COUNTS, pc,
                   request, locals, response, writes>>

\* the entry of trace for a call of garbage_collect_failed_edit_history: the
\* two tables as the call found them
Swept(history, counts) ==
    [file_path |-> None, patch_content |-> <<>>, advisory |-> None,
     response |-> [status |-> "swept", error |-> NoError, applied |-> 0],
     before |-> disk, after |-> disk, time |-> now,
     history |-> history, counts |-> counts]

\* A call of garbage_collect_failed_edit_history on its own.
GarbageCollect ==
    /\ pc = "idle"
    /\ Len(trace) < cfg.max_calls
    /\ LET swept == garbage_collect_failed_edit_history(
                        FAILED_EDITS_HISTORY, MYPY_FAILURE_COUNTS, now)
       IN  /\ FAILED_EDITS_HISTORY' = swept.history
           /\ MYPY_FAILURE_COUNTS' = swept.counts
    /\ trace' = Append(trace, Swept(FAILED_EDITS_HISTORY, MYPY_FAILURE_COUNTS))
    /\ UNCHANGED <<cfg, fuzzy, now, disk, TOOL_CALL_COUNTER, pc, request, locals,
                   response, writes>>

\* the entry of trace for a call of update_mypy_failure_count
Counted(path, mypy_passed) ==
    [file_path |-> None, patch_content |-> <<>>, advisory |-> None,
     response |-> [status |-> "counted", error |-> NoError, applied |-> 0],
     before |-> disk, after |-> disk, time |-> now,
     path |-> path, mypy_passed |-> mypy_passed]

\* A call of update_mypy_failure_count on its own, for the Python file.
MaxStreak == 1

UpdateMypyFailureCount ==
    /\ pc = "idle"
    /\ Len(trace) < cfg.max_calls
    /\ \E mypy_passed \in BOOLEAN :
        /\ IF mypy_passed THEN TRUE
           ELSE IF PyFile \in DOMAIN MYPY_FAILURE_COUNTS
           THEN MYPY_FAILURE_COUNTS[PyFile] < MaxStreak
           ELSE TRUE
        /\ MYPY_FAILURE_COUNTS' =
               update_mypy_failure_count(MYPY_FAILURE_COUNTS, PyFile,
                                         mypy_passed)
        /\ trace' = Append(trace, Counted(PyFile, mypy_passed))
    /\ UNCHANGED <<cfg, fuzzy, now, disk, FAILED_EDITS_HISTORY, TOOL_CALL_COUNTER,
                   pc, request, locals, response, writes>>

\* A call of generate_fuzzy_match_hint on its own, as the unit tests make
\* it.
GenerateFuzzyMatchHint ==
    /\ ~fuzzy.returned
    /\ \E on_edge \in BOOLEAN :
        fuzzy' = [fuzzy EXCEPT
                      !.returned = TRUE,
                      !.hint = generate_fuzzy_match_hint(fuzzy.search_text,
                                                         fuzzy.content,
                                                         on_edge)]
    /\ UNCHANGED <<cfg, now, disk, globals, pc, request, locals, response,
                   writes, trace>>

NextCore ==
    \/ PatchFileStart
    \/ ParseStep
    \/ ApplyBlock
    \/ WriteFile
    \/ Finish
    \/ Except

NextQA ==
    \/ NextCore
    \/ QAStart
    \/ QAPass
    \/ QAMypy
    \/ QAReport

Next ==
    \/ NextCore
    \/ QAStart
    \/ QAPass
    \/ QAMypy
    \/ QAReport
    \/ Tick

\* The state after calls requests that left the two tables empty, for a
\* run that may submit the requests of pool until TOOL_CALL_COUNTER is
\* max_calls, to the files of files, on a server configured as qa says.
InitAfter(calls, pool, max_calls, files, pieces, qa) ==
    /\ cfg = [pool |-> pool, max_calls |-> max_calls, written_as |-> pieces,
              qa |-> qa]
    /\ trace = <<>>
    /\ now = 0
    /\ disk = files
    /\ FAILED_EDITS_HISTORY = EmptyDict
    /\ TOOL_CALL_COUNTER = calls
    /\ MYPY_FAILURE_COUNTS = EmptyDict
    /\ pc = "idle"
    /\ file_path = None
    /\ patch_content = <<>>
    /\ awareness_message = None
    /\ original_content = <<>>
    /\ blocks = <<>>
    /\ block_idx = 0
    /\ current_content = <<>>
    /\ applied_blocks = 0
    /\ error = NoError
    /\ qa_results = NoQA
    /\ patch_result = NoPatchResult
    /\ response = NoResponse
    /\ disk_at_start = files
    /\ writes = 0

\* The state after the module is loaded.
InitProgram(pool, max_calls, files, pieces, qa) ==
    InitAfter(0, pool, max_calls, files, pieces, qa)

InitWithQA(pool, max_calls, files, pieces, qa) ==
    /\ InitProgram(pool, max_calls, files, pieces, qa)
    /\ fuzzy = NoFuzzy

\* the same, for a server started without flags and without
\* PATCH_MCP_QA_MAX_ITERATIONS in its environment
InitWith(pool, max_calls, files, pieces) ==
    InitWithQA(pool, max_calls, files, pieces, DefaultQA)

Request(path, patch) == [file_path |-> path, patch_content |-> patch]

\* the disk with TextFile and PyFile holding content, no other file
Files(content) ==
    [f \in Paths |-> IF f \in {TextFile, PyFile} THEN content ELSE NoFile]

(***************************************************************************)
(* The specifications.  Each submits its own requests; all run the same    *)
(* handler.                                                                *)
(***************************************************************************)
MaxCallsParser == 1
MaxCallsApply == 2
MaxCallsTrack == 5
MaxCalls == 2
MaxBlocks == 2
MaxBuf == 3

\* SpecParser: one patch of ParserPatches, submitted to a file holding "a".
InitParser ==
    \E q \in PieceSeqs(ParserPieces, MaxPieces) :
        InitWith({Request(TextFile, PatchOf(q))}, MaxCallsParser,
                 Files(<<"a">>), q)

SpecParser == InitParser /\ [][NextCore]_vars

RECURSIVE Texts(_, _)
\* every text of at most n characters of alphabet
Texts(alphabet, n) ==
    IF n = 0 THEN {<<>>}
    ELSE LET shorter == Texts(alphabet, n - 1)
         IN  shorter \cup {Append(t, c) : t \in shorter, c \in alphabet}

ApplySearchTexts == {<<>>, <<"a">>, <<"b">>, <<"a", "a">>}
ApplyReplaceTexts == {<<"a">>, <<"b">>}

\* a well-formed block for a one-line search text and replacement, or a
\* SEARCH marker on its own
ApplyPieces ==
    {BlockPiece(<<st>>, <<rt>>) :
         st \in ApplySearchTexts, rt \in ApplyReplaceTexts}
        \cup {<<<<search_marker>>>>}

\* SpecApply: one patch of at most MaxBlocks pieces, submitted again and
\* again to a file of at most MaxBuf characters.
InitApply ==
    \E q \in PieceSeqs(ApplyPieces, MaxBlocks) \ {<<>>},
       content \in Texts({"a", "b"}, MaxBuf) :
        InitWith({Request(TextFile, PatchOf(q))}, MaxCallsApply,
                 Files(content), q)

SpecApply == InitApply /\ [][NextCore]_vars

\* the requests of SpecTrack: a failing one-block patch, two failing
\* two-block patches, a failing patch whose second block deletes, one that
\* does not parse, one that applies once
TrackPatches ==
    {PatchOf(<<BlockPiece(<<LineB>>, <<LineA>>)>>),
     PatchOf(<<BlockPiece(<<LineB>>, <<LineA>>),
               BlockPiece(<<LineA>>, <<LineB>>)>>),
     PatchOf(<<BlockPiece(<<LineB>>, <<LineB>>),
               BlockPiece(<<LineA>>, <<LineA>>)>>),
     PatchOf(<<BlockPiece(<<LineB>>, <<LineA>>),
               BlockPiece(<<LineA>>, <<>>)>>),
     PatchOf(<<<<<<search_marker>>>>, <<LineA>>>>),
     PatchOf(<<BlockPiece(<<LineA>>, <<<<"a", "a">>>>)>>)}

InitTrack ==
    InitWith({Request(TextFile, patch) : patch \in TrackPatches},
             MaxCallsTrack, Files(<<"a">>), <<>>)

SpecTrack == InitTrack /\ [][NextCore]_vars

\* SpecHistory: track_failed_edit called again and again, for two patches
\* to one file and one patch to another.
MaxTrackCalls == 11

InitHistory ==
    InitWith({Request(TextFile, PatchOf(<<BlockPiece(<<LineB>>, <<LineA>>)>>)),
              Request(TextFile, PatchOf(<<BlockPiece(<<LineB>>, <<LineB>>)>>)),
              Request(PyFile, PatchOf(<<BlockPiece(<<LineB>>, <<LineA>>)>>))},
             MaxTrackCalls, Files(<<"a">>), <<>>)

SpecHistory == InitHistory /\ [][TrackFailedEdit]_vars

\* SpecGC: the tracker functions called on their own, in any order, with
\* the clock running.
MaxGCCalls == 4

NextGC ==
    \/ TrackFailedEdit
    \/ GarbageCollect
    \/ UpdateMypyFailureCount
    \/ Tick

InitGC ==
    InitWith({Request(TextFile, PatchOf(<<BlockPiece(<<LineB>>, <<LineA>>)>>)),
              Request(PyFile, PatchOf(<<BlockPiece(<<LineB>>, <<LineA>>)>>))},
             MaxGCCalls, Files(<<"a">>), <<>>)

SpecGC == InitGC /\ [][NextGC]_vars

\* SpecQA: a patch that applies once, submitted to two Python files, one
\* of them under tests, and to a text file, on a server started with any
\* combination of the three flags and a PATCH_MCP_QA_MAX_ITERATIONS of 0 to
\* MaxIterations, with tools that may be slow.
MaxCallsQA == 2
MaxIterations == 2

InitQA ==
    \E limit \in 0..MaxIterations, no_ruff \in BOOLEAN, no_black \in BOOLEAN,
       no_mypy \in BOOLEAN, run_mypy_on_tests \in BOOLEAN :
        InitWithQA({Request(path, PatchOf(<<BlockPiece(<<LineA>>,
                                                        <<LineB>>)>>)) :
                        path \in {PyFile, PyTestFile, TextFile}},
                   MaxCallsQA,
                   [Files(<<"a">>) EXCEPT ![PyTestFile] = <<"a">>], <<>>,
                   [QA_MAX_ITERATIONS |-> limit, SKIP_RUFF |-> no_ruff,
                    SKIP_BLACK |-> no_black, SKIP_MYPY |-> no_mypy,
                    SKIP_MYPY_ON_TESTS |-> ~run_mypy_on_tests,
                    tool_seconds |-> Durations])

SpecQA == InitQA /\ [][NextQA]_vars

\* SpecStreak: a patch that applies every time, submitted again and again
\* to one Python file, on a server started without flags and with
\* PATCH_MCP_QA_MAX_ITERATIONS=2.
MaxCallsStreak == 4

InitStreak ==
    InitWithQA({Request(PyFile, PatchOf(<<BlockPiece(<<LineA>>,
                                                     <<LineA>>)>>))},
               MaxCallsStreak, Files(<<"a">>), <<>>,
               [DefaultQA EXCEPT !.QA_MAX_ITERATIONS = 2])

SpecStreak == InitStreak /\ [][NextQA]_vars

\* SpecHint: generate_fuzzy_match_hint called once, for a search text of
\* two words and a file that holds the two words on two lines of their
\* own.  The words are cut from Letters; between them the search text has a
\* line break, a carriage return or a space, and then blanks; the file
\* indents the second word by blanks of its own.  Two more search texts are
\* past the upper safeguards, and some files hold the two words twice.
MaxWord == 10
MaxGap == 12

Letters == <<"a", "b", "c", "d", "e", "f", "g", "h">>
Word(n) == [i \in 1..n |-> Letters[((i - 1) % Len(Letters)) + 1]]
Blanks(n) == [i \in 1..n |-> SP]

HintWidths == {4, MaxWord}
HintGaps == {0, MaxGap \div 2, MaxGap}

SearchOf(w1, sep, gap, w2) == Word(w1) \o <<sep>> \o Blanks(gap) \o Word(w2)

FileOf(w1, gap, w2) ==
    <<"z", NL>> \o Word(w1) \o <<NL>> \o Blanks(gap) \o Word(w2)
        \o <<NL, "y">>

\* HINT_MAX_LINES + 1 lines of two letters, and the file that indents them
TooManyLines(indent) ==
    Join([i \in 1..(HINT_MAX_LINES + 1) |-> Blanks(indent) \o Word(2)],
         <<NL>>)

\* two lines of HINT_MAX_CHARS + 1 characters in all
TooManyChars(indent) ==
    Word(HINT_MAX_CHARS \div 2) \o <<NL>> \o Blanks(indent)
        \o Word(HINT_MAX_CHARS \div 2 - indent)

\* the first d letters of the word struck out
Damaged(n, d) == [i \in 1..n |-> IF i <= d THEN "z" ELSE Word(n)[i]]

\* a search text of two words on two lines, and a file that holds it twice,
\* the second time with the first d letters of its second word struck out
MaxDamage == 4
ShortWords == {MaxWord - 1, MaxWord}
TwoRegionCalls ==
    {[search_text |-> Word(MaxWord) \o <<NL>> \o Word(w2),
      content |-> Word(MaxWord) \o <<NL>> \o Word(w2) \o <<NL, "y", NL>>
                      \o Word(MaxWord) \o <<NL>> \o Damaged(w2, d)
                      \o <<NL, "y">>] :
         w2 \in ShortWords, d \in 0..MaxDamage}

HintCalls ==
    TwoRegionCalls \cup
    {[search_text |-> SearchOf(w1, sep, gap, w2),
      content |-> FileOf(w1, in_file, w2)] :
         w1 \in HintWidths, w2 \in HintWidths, sep \in {NL, CR, SP},
         gap \in HintGaps, in_file \in HintGaps}
        \cup {[search_text |-> TooManyLines(0), content |-> TooManyLines(1)],
              [search_text |-> TooManyChars(0), content |-> TooManyChars(1)]}

InitHint ==
    /\ InitProgram({}, 0, Files(<<>>), <<>>, DefaultQA)
    /\ \E call \in HintCalls :
           fuzzy = [search_text |-> call.search_text,
                    content |-> call.content, returned |-> FALSE,
                    hint |-> NoHint]

SpecHint == InitHint /\ [][GenerateFuzzyMatchHint]_vars

\* SpecSweep: the requests around the hundredth.  The server has answered
\* GC_EVERY - MaxCallsSweep requests that left no trace in the two tables;
\* a patch that applies once is then submitted to the Python file, and to a
\* relative path, until one request past the hundredth, with the clock
\* running.
MaxCallsSweep == 4

InitSweep ==
    /\ InitAfter(GC_EVERY - MaxCallsSweep,
                 {Request(path, PatchOf(<<BlockPiece(<<LineA>>, <<LineB>>)>>)) :
                      path \in {PyFile, RelativeFile}},
                 GC_EVERY + 1, Files(<<"a">>), <<>>,
                 [DefaultQA EXCEPT !.QA_MAX_ITERATIONS = 2])
    /\ fuzzy = NoFuzzy

SpecSweep == InitSweep /\ [][Next]_vars

\* Spec: requests to every kind of path, the Python files among them, with
\* the clock running, on a server started without flags and with
\* PATCH_MCP_QA_MAX_ITERATIONS=2.
InitAll ==
    InitWithQA({Request(path, patch) :
                    path \in Paths,
                    patch \in {PatchOf(<<BlockPiece(<<LineA>>, <<LineB>>)>>),
                               PatchOf(<<BlockPiece(<<LineB>>, <<LineA>>)>>)}},
               MaxCalls, Files(<<"a">>), <<>>,
               [DefaultQA EXCEPT !.QA_MAX_ITERATIONS = 2])

Spec == InitAll /\ [][Next]_vars

(***************************************************************************)
(* The claims.                                                             *)
(***************************************************************************)
\* the positions at which sub occurs in s, overlapping ones included
Occurrences(s, sub) == {p \in 1..(Len(s) + 1) : StartsAt(s, sub, p)}

\* s with the n characters from position p replaced by rep
SpliceAt(s, p, n, rep) ==
    SubSeq(s, 1, p - 1) \o rep \o SubSeq(s, p + n, Len(s))

\* s with its one occurrence of sub replaced by rep
ReplaceTheOccurrence(s, sub, rep) ==
    SpliceAt(s, CHOOSE p \in Occurrences(s, sub) : TRUE, Len(sub), rep)

NotFoundMsg == "Could not find the search text in the file"
AmbiguousMsg == "The search text appears {count} times in the file"

\* C1: for every block patch_file processes, with c the number of exact
\* occurrences of its search text in the current buffer: c = 1 replaces the
\* occurrence and goes on to the next block; c = 0 fails the request with
\* the not-found error naming the block; c >= 2 fails it with the error
\* that embeds c and the block.
C1_ExactMatchCount ==
    [][pc = "apply" =>
          LET search_text == blocks[block_idx][1]
              replace_text == blocks[block_idx][2]
              c == Cardinality(Occurrences(current_content, search_text))
          IN  /\ c = 1 =>
                    /\ current_content' =
                           ReplaceTheOccurrence(current_content, search_text,
                                                replace_text)
                    /\ block_idx' = block_idx + 1
                    /\ pc' \in {"apply", "write"}
              /\ c = 0 =>
                    /\ pc' = "except"
                    /\ error'.msg = NotFoundMsg
                    /\ error'.block = block_idx
              /\ c >= 2 =>
                    /\ pc' = "except"
                    /\ error'.msg = AmbiguousMsg
                    /\ error'.count = c
                    /\ error'.block = block_idx]_vars

\* C2: a request that fails in parsing or in a block leaves the file as it
\* was, whatever number of earlier blocks matched; a request writes the file
\* at most once, and only when every block has been applied to the buffer.
C2_NoPartialWrite ==
    /\ writes <= 1
    /\ writes = 1 =>
           /\ blocks # <<>>
           /\ applied_blocks = Len(blocks)
           /\ block_idx = Len(blocks) + 1
           /\ pc \in {"qa", "finish", "idle"}
           /\ pc = "idle" => response.status = "success"
    /\ (pc = "except" \/ (pc = "idle" /\ response.status = "raised")) =>
           /\ writes = 0
           /\ disk = disk_at_start
    /\ \A k \in 1..Len(trace) :
           trace[k].response.status = "raised" =>
               trace[k].after = trace[k].before

\* a block failed after an earlier block of the request had changed the
\* buffer
C2_Witness ==
    /\ pc = "except"
    /\ applied_blocks >= 1
    /\ current_content # original_content
    /\ disk = disk_at_start

RECURSIVE ApplyInOrder(_, _)
\* the blocks applied one after another, each to the result of the one
\* before, at the first place its search text occurs
ApplyInOrder(bs, buffer) ==
    IF bs = <<>> THEN buffer
    ELSE ApplyInOrder(Tail(bs),
                      SpliceAt(buffer, Find(buffer, Head(bs)[1]),
                               Len(Head(bs)[1]), Head(bs)[2]))

\* the one request a run of SpecParser or SpecApply submits
TheRequest == CHOOSE r \in cfg.pool : TRUE

\* C3: on success the file holds the blocks applied in request order, block
\* k to the buffer blocks 1..k-1 produced, and the count the response
\* reports is the number of blocks parsed from the request.
C3_SequentialResult ==
    \A k \in 1..Len(trace) :
        trace[k].response.status = "success" =>
            LET parsed == parse_search_replace_blocks(TheRequest.patch_content)
            IN  /\ trace[k].after[TextFile] =
                       ApplyInOrder(parsed.blocks, trace[k].before[TextFile])
                /\ trace[k].response.applied = Len(parsed.blocks)

\* a request of two blocks succeeded whose second search text was not in
\* the file: it matched what the first block wrote
C3_Witness ==
    /\ pc = "idle"
    /\ response.status = "success"
    /\ Len(blocks) = 2
    /\ ~Contains(original_content, blocks[2][1])
    /\ disk[TextFile] # original_content

\* the sections of a block that hold no marker
PlainSections ==
    {sec \in ParserSections : \A i \in 1..Len(sec) : ~HasMarker(sec[i])}

\* the pair a block written with plain sections stands for
WrittenPair(piece) ==
    CHOOSE pair \in {<<Join(x[1], <<NL>>), Join(x[2], <<NL>>)>> :
                        x \in {y \in PlainSections \X PlainSections :
                                  BlockPiece(y[1], y[2]) = piece}} : TRUE

\* the request was written as one block or more, each with plain sections
WrittenValid ==
    /\ cfg.written_as # <<>>
    /\ \A k \in 1..Len(cfg.written_as) :
           cfg.written_as[k] \in BlockPieces(PlainSections, PlainSections)

\* the number of times the marker is written in the text
Written(text, marker) == Cardinality({i \in 1..Len(text) : text[i] = marker})

UnbalancedMsg == "Malformed patch format: Unbalanced markers"
SequenceMsg == "Malformed patch format: Incorrect marker sequence"
NestedMsg == "Malformed patch format: Nested SEARCH marker"
NoBlockMsg == "Invalid patch format. Expected block format"

\* the request has been parsed and its blocks extracted
Extracted == pc \in {"apply", "write", "finish"}

\* C4: a valid input of N blocks parses to exactly its N pairs in the order
\* written; an input whose three marker counts are not all equal fails with
\* the unbalanced-markers error.
C4_ParsesAllInOrder ==
    /\ (WrittenValid /\ pc \in {"apply", "write", "finish", "except"}) =>
           blocks = [k \in 1..Len(cfg.written_as) |->
                         WrittenPair(cfg.written_as[k])]
    /\ (/\ pc # "idle"
        /\ ~(/\ Written(patch_content, search_marker)
                   = Written(patch_content, separator)
             /\ Written(patch_content, separator)
                   = Written(patch_content, replace_marker))) =>
           /\ ~Extracted
           /\ pc = "except" => error.msg = UnbalancedMsg

\* the lines of the text that are the marker once stripped
MarkerLineCount(text, marker) ==
    LET lines == SplitLines(text)
    IN  Cardinality({i \in 1..Len(lines) : Strip(lines[i]) = <<marker>>})

\* C5: whenever parsing returns, the number of pairs is the number of SEARCH
\* marker lines of the input, blocks with an empty search or replacement
\* section included; no block of the request is dropped.
C5_NoBlockDropped ==
    Extracted => Len(blocks) = MarkerLineCount(patch_content, search_marker)

\* the text holds one of the three markers
MentionsMarker(text) ==
    \E i \in 1..Len(text) :
        text[i] \in {search_marker, separator, replace_marker}

RECURSIVE RawLineScan(_, _)
\* the pairs the line-by-line extraction cuts out, whatever they hold
RawLineScan(lines, i) ==
    IF i > Len(lines) THEN <<>>
    ELSE IF lines[i] # <<search_marker>> THEN RawLineScan(lines, i + 1)
    ELSE LET e == FirstLine(lines, separator, i + 1)
             r == IF e = 0 THEN 0 ELSE FirstLine(lines, replace_marker, e + 1)
         IN  IF r = 0 THEN <<>>
             ELSE <<<<Join(SubSeq(lines, i + 1, e - 1), <<NL>>),
                      Join(SubSeq(lines, e + 1, r - 1), <<NL>>)>>>>
                      \o RawLineScan(lines, r + 1)

\* the pairs extraction cuts out of the input before it checks them
RawPairs(text) ==
    IF RegexMatches(text) # <<>> THEN RegexMatches(text)
    ELSE RawLineScan(SplitLines(text), 1)

\* C6: no pair parsing returns holds a marker, on either extraction path,
\* and an input that would give such a pair fails the request before any
\* block is applied to the file.
C6_NoMarkerInPairs ==
    /\ \A k \in 1..Len(blocks) :
           ~MentionsMarker(blocks[k][1]) /\ ~MentionsMarker(blocks[k][2])
    /\ (/\ pc # "idle"
        /\ LET raw == RawPairs(patch_content)
           IN  \E k \in 1..Len(raw) :
                   MentionsMarker(raw[k][1]) \/ MentionsMarker(raw[k][2])) =>
           /\ ~Extracted
           /\ applied_blocks = 0
           /\ disk = disk_at_start

\* the pattern matched a pair that holds a marker, and the request failed
\* before the first block
C6_Witness ==
    /\ pc = "except"
    /\ RegexMatches(patch_content) # <<>>
    /\ error.msg = "Replace text contains patch markers"
    /\ applied_blocks = 0

\* some complete triple of marker lines is not SEARCH, separator, REPLACE
WrongTriple(text) ==
    LET lines == SplitLines(text)
        at == {i \in 1..Len(lines) : Strip(lines[i]) \in MarkerLiterals}
        nth(k) == CHOOSE i \in at : Cardinality({j \in at : j <= i}) = k
    IN  \E t \in 0..(Cardinality(at) \div 3 - 1) :
            <<Strip(lines[nth(3 * t + 1)]), Strip(lines[nth(3 * t + 2)]),
              Strip(lines[nth(3 * t + 3)])>>
                # <<<<search_marker>>, <<separator>>, <<replace_marker>>>>

\* a SEARCH marker follows another with no REPLACE marker between them
NestedSearch(text) ==
    \E i, j \in 1..Len(text) :
        /\ i < j
        /\ text[i] = search_marker
        /\ text[j] = search_marker
        /\ \A h \in (i + 1)..(j - 1) : text[h] # replace_marker

\* C7: validate_block_integrity rejects every input with a triple of marker
\* lines that is not SEARCH, separator, REPLACE, and every input with a
\* SEARCH marker inside a SEARCH section that its REPLACE marker has not
\* closed; such inputs never reach block extraction.
C7_ValidatorRejects ==
    (/\ pc # "idle"
     /\ WrongTriple(patch_content) \/ NestedSearch(patch_content)) =>
        /\ ~validate_block_integrity(patch_content).ok
        /\ ~Extracted
        /\ pc = "except" =>
               error.msg \in {UnbalancedMsg, SequenceMsg, NestedMsg}

\* the input is empty or white space, or holds no SEARCH marker line
NoBlockWritten(text) ==
    \/ \A i \in 1..Len(text) : text[i] \in Whitespace
    \/ MarkerLineCount(text, search_marker) = 0 /\ ~MentionsMarker(text)

\* C8: parse_search_replace_blocks never returns an empty list; for empty
\* input, white space and input in which no block is found it raises, and
\* patch_file ends the request as failed.
C8_NeverEmptyList ==
    /\ pc # "idle" =>
           LET parsed == parse_search_replace_blocks(patch_content)
           IN  /\ parsed.ok => parsed.blocks # <<>>
               /\ NoBlockWritten(patch_content) =>
                      ~parsed.ok /\ parsed.msg = NoBlockMsg
    /\ Extracted => blocks # <<>>
    /\ \A k \in 1..Len(trace) :
           NoBlockWritten(TheRequest.patch_content) =>
               /\ trace[k].response.status = "raised"
               /\ trace[k].response.error.msg = NoBlockMsg
               /\ trace[k].after = trace[k].before

\* a request of white space only ended as failed
C8_Witness ==
    /\ Len(trace) = 1
    /\ patch_content # <<>>
    /\ \A i \in 1..Len(patch_content) : patch_content[i] \in Whitespace
    /\ response.status = "raised"
    /\ response.error.msg = NoBlockMsg

\* every search text occurs at exactly one place of the buffer, and no two
\* of those places overlap
OnceAndApart(bs, buffer) ==
    /\ \A k \in 1..Len(bs) :
           Cardinality(Occurrences(buffer, bs[k][1])) = 1
    /\ \A j, k \in 1..Len(bs) :
           j < k =>
               LET pj == CHOOSE p \in Occurrences(buffer, bs[j][1]) : TRUE
                   pk == CHOOSE p \in Occurrences(buffer, bs[k][1]) : TRUE
               IN  \/ pj + Len(bs[j][1]) <= pk
                   \/ pk + Len(bs[k][1]) <= pj

RECURSIVE OnceInTurn(_, _)
\* every search text occurs at exactly one place of the buffer the blocks
\* before it produced
OnceInTurn(bs, buffer) ==
    \/ bs = <<>>
    \/ /\ Cardinality(Occurrences(buffer, Head(bs)[1])) = 1
       /\ OnceInTurn(Tail(bs),
                     ReplaceTheOccurrence(buffer, Head(bs)[1], Head(bs)[2]))

\* C9 as the specification states it: when every search text of a request
\* occurs exactly once in the buffer and the matched regions do not overlap,
\* the request succeeds, and submitting it again to the file it wrote fails.
C9_AsStated ==
    LET parsed == parse_search_replace_blocks(TheRequest.patch_content)
    IN  (/\ Len(trace) >= 1
         /\ parsed.ok
         /\ OnceAndApart(parsed.blocks, trace[1].before[TextFile])) =>
            /\ trace[1].response.status = "success"
            /\ Len(trace) >= 2 => trace[2].response.status = "raised"

\* C9: a request succeeds when every search text occurs exactly once in the
\* buffer the blocks before it produced; submitted again after a success, it
\* fails at block 1 with the not-found error and leaves the file alone
\* whenever the file it wrote no longer contains the first search text.
C9_FailsClosedReapply ==
    LET parsed == parse_search_replace_blocks(TheRequest.patch_content)
    IN  \A k \in 1..Len(trace) :
            parsed.ok =>
                /\ OnceInTurn(parsed.blocks, trace[k].before[TextFile]) =>
                       trace[k].response.status = "success"
                /\ (/\ k >= 2
                    /\ trace[k - 1].response.status = "success"
                    /\ Occurrences(trace[k].before[TextFile],
                                   parsed.blocks[1][1]) = {}) =>
                       /\ trace[k].response.status = "raised"
                       /\ trace[k].response.error.msg = NotFoundMsg
                       /\ trace[k].response.error.block = 1
                       /\ trace[k].after = trace[k].before

\* a request succeeded, and the same request submitted again failed on the
\* file the first one wrote
C9_Witness ==
    /\ Len(trace) = 2
    /\ trace[1].response.status = "success"
    /\ trace[2].response.status = "raised"
    /\ trace[2].before = trace[1].after
    /\ Occurrences(trace[2].before[TextFile], blocks[1][1]) = {}

\* the failed attempts recorded for the file of the request
RecordedAttempts ==
    IF file_path \in DOMAIN FAILED_EDITS_HISTORY
    THEN Len(FAILED_EDITS_HISTORY[file_path])
    ELSE 0

\* C10: with k failed attempts recorded for the file and a request of b
\* blocks, the advisory is absent when k <= 1, carries the ordinal of k
\* ("2nd", "3rd", "kth") when k >= 2, and carries the splitting suggestion
\* exactly when k >= 3 and b > 1; k counts every recorded attempt, whatever
\* its patch content was.
C10_AdvisoryByCount ==
    pc = "parse" =>
        LET k == RecordedAttempts
            b == MarkerLineCount(patch_content, search_marker)
            suffix == IF k = 2 THEN "nd" ELSE IF k = 3 THEN "rd" ELSE "th"
        IN  awareness_message =
                IF k <= 1 THEN None
                ELSE [ordinal |-> <<k, suffix>>,
                      splitting |-> (k >= 3 /\ b > 1)]

(***************************************************************************)
(* The tracker as patch_file drives it.                                    *)
(***************************************************************************)
\* the attempts history holds for path
AttemptsOf(history, path) ==
    IF path \in DOMAIN history THEN history[path] ELSE <<>>

\* the attempts recorded for path
History(path) == AttemptsOf(FAILED_EDITS_HISTORY, path)

\* the requests of trace made on path, as their positions in trace
RequestsOn(path) == {i \in 1..Len(trace) : trace[i].file_path = path}

\* position j holds the first request after position i on the same file
NextOnFile(i, j) ==
    /\ j \in RequestsOn(trace[i].file_path)
    /\ j > i
    /\ \A k \in RequestsOn(trace[i].file_path) : ~(i < k /\ k < j)

\* C11: once a request on a file has succeeded the history of the file is
\* gone: the next request on the file prints no advisory, and the first
\* failure that follows leaves exactly one attempt recorded.
C11_SuccessClearsHistory ==
    \A i \in 1..Len(trace) :
        trace[i].response.status = "success" =>
            LET f == trace[i].file_path
            IN  /\ (i = Len(trace) /\ pc = "idle") =>
                       f \notin DOMAIN FAILED_EDITS_HISTORY
                /\ (i = Len(trace) /\ pc # "idle" /\ file_path = f) =>
                       awareness_message = None
                /\ \A j \in 1..Len(trace) :
                       NextOnFile(i, j) =>
                           /\ trace[j].advisory = None
                           /\ (/\ trace[j].response.status = "raised"
                               /\ j = Len(trace)
                               /\ pc = "idle") => Len(History(f)) = 1

\* a failure, a success and a failure again on one file, the last one the
\* only attempt recorded
C11_Witness ==
    /\ pc = "idle"
    /\ Len(trace) >= 3
    /\ LET n == Len(trace)
       IN  /\ trace[n - 2].response.status = "raised"
           /\ trace[n - 1].response.status = "success"
           /\ trace[n].response.status = "raised"
           /\ trace[n].file_path = trace[n - 1].file_path
           /\ trace[n - 2].file_path = trace[n - 1].file_path
           /\ trace[n].advisory = None
           /\ Len(History(trace[n].file_path)) = 1

\* the content of request i of trace was written with more than one SEARCH
\* line
MultiBlock(i) == MarkerLineCount(trace[i].patch_content, search_marker) > 1

\* requests i, i + 1 and i + 2 of trace are three failures in a row on one
\* file, each with multi-block content, the first of them finding the
\* history of the file empty
ThreeFailures(i) ==
    /\ i + 2 <= Len(trace)
    /\ \A k \in i..(i + 2) :
           /\ trace[k].file_path = trace[i].file_path
           /\ trace[k].response.status = "raised"
           /\ MultiBlock(k)
    /\ \A k \in 1..(i - 1) :
           trace[k].file_path = trace[i].file_path =>
               \E j \in k..(i - 1) :
                   /\ trace[j].file_path = trace[i].file_path
                   /\ trace[j].response.status = "success"

EndsInError ==
    /\ Len(trace') = Len(trace) + 1
    /\ trace'[Len(trace')].response.status = "raised"

\* C13: a request that ends in an error, at whatever stage, appends exactly
\* one attempt to the history of its file: the attempts recorded before,
\* then one for this request.
C13_EveryFailureRecorded ==
    [][EndsInError =>
           LET ended == trace'[Len(trace')]
               before == History(ended.file_path)
               after == AttemptsOf(FAILED_EDITS_HISTORY', ended.file_path)
           IN  /\ Len(after) = Len(before) + 1
               /\ SubSeq(after, 1, Len(before)) = before
               /\ after[Len(after)].params_hash =
                      create_patch_params_hash(ended.file_path,
                                               ended.patch_content)]_vars

\* the messages of the errors parsing raises
ParsingMsgs ==
    {UnbalancedMsg, SequenceMsg, NestedMsg, NoBlockMsg,
     "No valid search-replace blocks found",
     "Search text contains patch markers",
     "Replace text contains patch markers",
     "Invalid format: missing separator",
     "Invalid format: missing replace marker"}

\* the messages of the errors applying a block raises
ApplicationMsgs == {NotFoundMsg, AmbiguousMsg}

\* C14: an attempt recorded for a parsing error carries the stage
\* "patch_parsing", one recorded for an application error carries
\* "block_application", and the request that failed ended with that error.
C14_StageByKind ==
    /\ \A f \in DOMAIN FAILED_EDITS_HISTORY :
           \A k \in 1..Len(FAILED_EDITS_HISTORY[f]) :
               LET attempt == FAILED_EDITS_HISTORY[f][k]
               IN  /\ attempt.error_message.msg \in ParsingMsgs =>
                          attempt.failure_stage = "patch_parsing"
                   /\ attempt.error_message.msg \in ApplicationMsgs =>
                          attempt.failure_stage = "block_application"
    /\ (pc = "idle" /\ response.status = "raised"
            /\ response.error.msg \in ParsingMsgs \cup ApplicationMsgs) =>
           LET recorded == History(file_path)
           IN  /\ recorded # <<>>
               /\ recorded[Len(recorded)].error_message.msg =
                      response.error.msg

\* the entries of trace for path, oldest first
CallsOn(path) ==
    LET OnPath(e) == e.file_path = path
    IN  SelectSeq(trace, OnPath)

\* C15: whatever calls of track_failed_edit were made, the history of a
\* file holds at most 10 attempts, and they are the latest attempts made
\* for the file, oldest first.
C15_LastTenInOrder ==
    \A f \in {TextFile, PyFile} :
        LET calls == CallsOn(f)
            kept == History(f)
            dropped == Len(calls) - Len(kept)
        IN  /\ Len(kept) <= 10
            /\ Len(kept) = IF Len(calls) > 10 THEN 10 ELSE Len(calls)
            /\ \A k \in 1..Len(kept) :
                   /\ kept[k].params_hash =
                          create_patch_params_hash(
                              f, calls[dropped + k].patch_content)
                   /\ kept[k].datetime = calls[dropped + k].time
                   /\ kept[k].error_message =
                          calls[dropped + k].response.error

\* eleven attempts on one file, the oldest for another patch than the one
\* that followed it: ten are kept
C15_Witness ==
    /\ Len(CallsOn(TextFile)) = 11
    /\ CallsOn(TextFile)[1].patch_content # CallsOn(TextFile)[2].patch_content
    /\ Len(History(TextFile)) = 10

\* the garbage collection that has just run: the tables it found and the
\* time it ran at
JustSwept ==
    /\ trace # <<>>
    /\ trace[Len(trace)].response.status = "swept"

\* C16: after garbage_collect_failed_edit_history has run, no attempt left
\* is older than an hour, the attempts of the last hour are all there in
\* the order they had, no file is left with an empty list, and a file that
\* lost its entry has no mypy streak either.
C16_SweepKeepsTheLastHour ==
    JustSwept =>
        LET found == trace[Len(trace)]
            InLastHour(attempt) == attempt.datetime >= found.time - ONE_HOUR
        IN  /\ DOMAIN FAILED_EDITS_HISTORY \subseteq DOMAIN found.history
            /\ \A f \in DOMAIN FAILED_EDITS_HISTORY :
                   /\ FAILED_EDITS_HISTORY[f] # <<>>
                   /\ \A k \in 1..Len(FAILED_EDITS_HISTORY[f]) :
                          InLastHour(FAILED_EDITS_HISTORY[f][k])
            /\ \A f \in DOMAIN found.history :
                   History(f) = SelectSeq(found.history[f], InLastHour)
            /\ \A f \in DOMAIN found.history \ DOMAIN FAILED_EDITS_HISTORY :
                   f \notin DOMAIN MYPY_FAILURE_COUNTS

\* a sweep that found a recent attempt for one file, and only a stale one
\* for a file with a mypy streak
C16_Witness ==
    /\ JustSwept
    /\ LET found == trace[Len(trace)]
       IN  /\ TextFile \in DOMAIN found.history
           /\ History(TextFile) = found.history[TextFile]
           /\ History(TextFile) # <<>>
           /\ PyFile \in DOMAIN found.history
           /\ PyFile \in DOMAIN found.counts
           /\ PyFile \notin DOMAIN FAILED_EDITS_HISTORY

\* the step is the entry of a request in which no garbage collection runs:
\* the counter goes up by one, then the advisory is computed
EntryWithoutSweep ==
    /\ pc = "idle"
    /\ TOOL_CALL_COUNTER' = TOOL_CALL_COUNTER + 1
    /\ TOOL_CALL_COUNTER' % GC_EVERY # 0

C18_WrittenMeansSuccess ==
    writes > 0 =>
        /\ pc # "except"
        /\ pc = "idle" =>
               /\ response.status = "success"
               /\ file_path \notin DOMAIN FAILED_EDITS_HISTORY

\* the tools the QA run of the current request has started
ToolsStarted ==
    LET IsTool(e) == e \in {"ruff", "black", "mypy"}
    IN  SelectSeq(qa_results.started, IsTool)

\* C19: QA tools are started only once the file is written and only for a
\* .py file; a request that ends in an error has started none, a request on
\* another file has started none and its response has no QA section.
C19_QAOnlyAfterWriteOfPython ==
    /\ ToolsStarted # <<>> => (writes > 0 /\ IsPython(file_path))
    /\ pc = "except" => ToolsStarted = <<>>
    /\ (pc = "finish" /\ ~IsPython(file_path)) =>
           /\ ToolsStarted = <<>>
           /\ patch_result.qa = "none"
    /\ (pc = "idle" /\ response.status = "success"
            /\ ~IsPython(file_path)) => response.qa = "none"

\* the passes of the loop the QA run has made: each starts ruff when ruff
\* is enabled, else black
PassesMade ==
    LET first == IF do_ruff THEN "ruff" ELSE "black"
        IsFirst(e) == e = first
    IN  Len(SelectSeq(qa_results.started, IsFirst))

\* the passes after which the file was found changed: a pass follows only
\* such a pass, so they are the first passes of the run
PassesThatChanged ==
    LET IsChange(e) == e = "changed"
    IN  Len(SelectSeq(qa_results.started, IsChange))

\* the run made its last permitted pass and the file was still changing
UnsettledAtBound ==
    /\ do_ruff
    /\ do_black
    /\ PassesThatChanged = max_iterations

\* C20: whatever the tools do, the loop makes at most max(1,
\* QA_MAX_ITERATIONS) passes and iterations_used stays within that bound; a
\* run that comes to the bound with the file still changing leaves the loop
\* for the report, with the "reached iteration limit" warning.
C20_LoopBounded ==
    LET bound == IF cfg.qa.QA_MAX_ITERATIONS > 1
                 THEN cfg.qa.QA_MAX_ITERATIONS ELSE 1
    IN  /\ qa_results.iterations_used <= bound
        /\ PassesMade <= bound
        /\ pc = "qa_pass" => qa_results.iterations_used < bound
        /\ UnsettledAtBound =>
               /\ pc \in {"qa_report", "finish"}
               /\ LimitMsg \in qa_results.warnings

\* the formatter changed the file in every one of two or more passes, and
\* the summary is in the text the request is about to return
C20_Witness ==
    /\ pc = "finish"
    /\ patch_result.qa = "results"
    /\ UnsettledAtBound
    /\ qa_results.iterations_used >= 2
    /\ LimitMsg \in qa_results.warnings

(***************************************************************************)
(* The passes of the QA loop, read from the log of the run.                *)
(***************************************************************************)
\* how often e is in log
Times(log, e) == Cardinality({i \in 1..Len(log) : log[i] = e})

\* the places of the log where a pass started its first tool
PassStarts ==
    LET first == IF do_ruff THEN "ruff" ELSE "black"
    IN  {i \in 1..Len(qa_results.started) : qa_results.started[i] = first}

\* what the log holds of pass n, from its first tool on
PassLog(n) ==
    LET log == qa_results.started
        from == CHOOSE i \in PassStarts :
                    Cardinality({j \in PassStarts : j <= i}) = n
        later == {j \in PassStarts : j > from}
        upto == IF later = {} THEN Len(log)
                ELSE (CHOOSE j \in later : \A k \in later : j <= k) - 1
    IN  SubSeq(log, from, upto)

\* e is in the log of pass n
InPass(n, e) ==
    /\ n >= 1
    /\ Cardinality(PassStarts) >= n
    /\ \E i \in 1..Len(PassLog(n)) : PassLog(n)[i] = e

\* the run has left the loop and has not raised
LoopLeft == pc \in {"qa_mypy", "qa_report", "finish"}

\* the pipeline has returned and has not raised
Returned == pc \in {"qa_report", "finish"}

\* C21 as stated: with both tools enabled, black rewriting the file in the
\* first pass is followed by a second run of ruff.
C21_AsStated ==
    (LoopLeft /\ do_ruff /\ do_black /\ InPass(1, "formatted")) =>
        Times(qa_results.started, "ruff") >= 2

\* C21: with both tools enabled and an iteration limit of two or more, a
\* first pass in which black rewrote the file and returned, so that the
\* file was found newer, is followed by a second run of ruff, unless the
\* second pass was cut short before ruff: the wall time was used up when
\* the first pass ended, and the run returned with the timeout warning, or
\* the file could no longer be read, and the run returned with the error.
C21_SecondLintAfterFormat ==
    (LoopLeft /\ do_ruff /\ do_black /\ InPass(1, "formatted")
         /\ InPass(1, "changed") /\ cfg.qa.QA_MAX_ITERATIONS >= 2) =>
        \/ Times(qa_results.started, "ruff") >= 2
        \/ /\ qa_results.elapsed > QA_WALL_TIME
           /\ TimedOutMsg \in qa_results.warnings
           /\ qa_results.iterations_used = 1
           /\ Returned
        \/ /\ qa_results.errors # {}
           /\ qa_results.iterations_used = 2
           /\ Returned

\* black rewrote the file in the first pass, in good time, and ruff ran a
\* second time
C21_Witness ==
    /\ pc = "finish"
    /\ do_ruff
    /\ do_black
    /\ InPass(1, "formatted")
    /\ InPass(2, "ruff")
    /\ TimedOutMsg \notin qa_results.warnings

\* the loop of the run ended with no unfixable lint, no tool that could not
\* be run, no unreadable file and the wall time not used up
LoopEndedWell ==
    /\ Returned
    /\ qa_results.qa_performed
    /\ qa_results.ruff_status # "failed"
    /\ qa_results.black_status # "failed"
    /\ qa_results.errors = {}
    /\ qa_results.elapsed <= QA_WALL_TIME
    /\ TimedOutMsg \notin qa_results.warnings

\* C22: with mypy enabled, a run whose loop ended well has started mypy
\* exactly once, and after every run of ruff and of black, whatever the
\* flags and the pass the loop settled on.
C22_TypeCheckOnceAfterLoop ==
    (LoopEndedWell /\ do_mypy) =>
        /\ Times(qa_results.started, "mypy") = 1
        /\ \A i \in 1..Len(qa_results.started) :
               qa_results.started[i] \in {"ruff", "black"} =>
                   \E j \in (i + 1)..Len(qa_results.started) :
                       qa_results.started[j] = "mypy"

\* C23 as stated: a run in which ruff reported unfixable lint has
\* ruff_status "failed" and has started neither black nor mypy.
C23_AsStated ==
    Times(qa_results.started, "unfixable") > 0 =>
        /\ qa_results.ruff_status = "failed"
        /\ Times(qa_results.started, "black") = 0
        /\ Times(qa_results.started, "mypy") = 0

\* C23: when ruff reports unfixable lint the pipeline returns there:
\* ruff_status is "failed", nothing is started after that ruff, so black is
\* not started in that pass nor later, and mypy is not started in the run;
\* black has run only in the passes before.
C23_StopsAtUnfixable ==
    \A i \in 1..Len(qa_results.started) :
        qa_results.started[i] = "unfixable" =>
            /\ i = Len(qa_results.started)
            /\ Returned
            /\ qa_results.ruff_status = "failed"
            /\ Times(qa_results.started, "mypy") = 0
            /\ Times(qa_results.started, "black")
                   = qa_results.iterations_used - 1
            /\ qa_results.mypy_status = None

\* ruff reported unfixable lint in the second pass, after black had
\* rewritten the file in the first, and the request is about to return
C23_Witness ==
    /\ pc = "finish"
    /\ patch_result.qa = "results"
    /\ qa_results.iterations_used = 2
    /\ InPass(1, "formatted")
    /\ InPass(2, "unfixable")

\* C24: no tool is started with more than QA_WALL_TIME seconds gone since
\* the pipeline began (the log has no "late" tool), and a run that carries
\* the timeout warning has returned without raising.
C24_NoToolStartedLate ==
    /\ Times(qa_results.started, "late") = 0
    /\ TimedOutMsg \in qa_results.warnings => Returned

(***************************************************************************)
(* The streak of mypy failures.                                            *)
(***************************************************************************)
\* MYPY_FAILURE_COUNTS.get(path, 0)
StreakIn(counts, path) == IF path \in DOMAIN counts THEN counts[path] ELSE 0

\* C25: when a QA run is reported, the streak of the file goes up by one if
\* mypy failed and is 0 after any other outcome: mypy passed, was disabled,
\* was skipped for a path under tests, or was not reached.
C25_StreakFollowsMypy ==
    [][(pc = "qa_report" /\ pc' = "finish") =>
           StreakIn(MYPY_FAILURE_COUNTS', file_path) =
               IF qa_results.mypy_status = "failed"
               THEN StreakIn(MYPY_FAILURE_COUNTS, file_path) + 1
               ELSE 0]_vars

\* the QA summary of the current request is written
Reported == pc = "finish" /\ patch_result.qa = "results"

\* C26: a response whose file has, after the update for the request, a
\* streak of 3 or more says nothing of mypy, neither the status line nor
\* the output; a request in which mypy passes leaves the streak at 0 and
\* its response has the status line of mypy.
C26_SuppressedFromThree ==
    Reported =>
        /\ StreakIn(MYPY_FAILURE_COUNTS, file_path) >= MYPY_SUPPRESS_AFTER
               => patch_result.mypy_shown = "nothing"
        /\ qa_results.mypy_status = "passed" =>
               /\ StreakIn(MYPY_FAILURE_COUNTS, file_path) = 0
               /\ patch_result.mypy_shown = "passed"

\* three requests on the file have ended, two with the output of a failed
\* mypy in the response and the third with nothing of mypy in it, and in
\* this one mypy passed and its status line is back
C26_Witness ==
    /\ Reported
    /\ Len(trace) = 3
    /\ \A i \in 1..3 : /\ trace[i].response.status = "success"
                       /\ trace[i].response.qa = "results"
    /\ trace[1].response.mypy_shown = "failed"
    /\ trace[2].response.mypy_shown = "failed"
    /\ trace[3].response.mypy_shown = "nothing"
    /\ qa_results.mypy_status = "passed"
    /\ patch_result.mypy_shown = "passed"

(***************************************************************************)
(* The fuzzy hint generator.                                               *)
(***************************************************************************)
\* text is shorter than HINT_MIN_CHARS or longer than HINT_MAX_CHARS, or
\* has fewer than HINT_MIN_LINES or more than HINT_MAX_LINES lines that are
\* not blank
OutsideLimits(text) ==
    \/ Len(text) < HINT_MIN_CHARS
    \/ Len(text) > HINT_MAX_CHARS
    \/ NonEmptyLines(text) < HINT_MIN_LINES
    \/ NonEmptyLines(text) > HINT_MAX_LINES

\* C27 as stated: no hint is returned for a search text whose normalized
\* form is outside the limits.
C27_AsStated ==
    (fuzzy.returned
         /\ OutsideLimits(normalize_text_for_fuzzy_matching(
                              fuzzy.search_text))) =>
        fuzzy.hint = NoHint

\* C27: no hint is returned for a search text that, stripped of the
\* whitespace at its two ends and not normalized further, is shorter than
\* 20 or longer than 2000 characters or has fewer than 2 or more than 50
\* lines that are not blank, whatever the file holds.
C27_NoHintOutsideLimits ==
    (fuzzy.returned /\ OutsideLimits(Strip(fuzzy.search_text))) =>
        fuzzy.hint = NoHint

\* a search text of two lines and fewer than 20 characters got no hint,
\* though one region of the file is like it
C27_Witness ==
    /\ fuzzy.returned
    /\ fuzzy.hint = NoHint
    /\ Len(Strip(fuzzy.search_text)) < HINT_MIN_CHARS
    /\ NonEmptyLines(Strip(fuzzy.search_text)) = HINT_MIN_LINES
    /\ Len(find_fuzzy_matches(fuzzy.search_text, fuzzy.content, TRUE)) = 1

\* the first read of the modification time failed in this run
StatFailed == "File not found or inaccessible" \in qa_results.errors

C29_LimitWarningOnlyWhenUnsettled ==
    (qa_results.qa_performed /\ LimitMsg \in qa_results.warnings) =>
        /\ do_ruff /\ do_black
        /\ qa_results.iterations_used = effective_iterations
        /\ InPass(qa_results.iterations_used, "formatted")

\* C30: every pass after the first follows a pass in which black itself
\* rewrote the file; ruff's autofix alone, with black leaving the file as
\* it found it, starts no further pass.
C30_NextPassOnlyAfterFormat ==
    \A n \in 2..Cardinality(PassStarts) : InPass(n - 1, "formatted")

(***************************************************************************)
(* The tools of the QA run: which are started, and what is recorded.       *)
(***************************************************************************)
\* the tools the configuration disables for the file of the request
Disabled ==
    {tool \in Tools :
         \/ tool = "ruff" /\ cfg.qa.SKIP_RUFF
         \/ tool = "black" /\ cfg.qa.SKIP_BLACK
         \/ tool = "mypy" /\ cfg.qa.SKIP_MYPY
         \/ tool = "mypy" /\ cfg.qa.SKIP_MYPY_ON_TESTS /\ InTests(file_path)}

\* the status of tool in the dict
StatusOf(tool) ==
    IF tool = "ruff" THEN qa_results.ruff_status
    ELSE IF tool = "black" THEN qa_results.black_status
    ELSE qa_results.mypy_status

\* C31: a tool that the configuration disables is never started in a QA
\* run, and its status stays None; --no-mypy wins over
\* --run-mypy-on-tests, and with all three disabled no tool is started.
C31_DisabledToolUntouched ==
    \A tool \in Disabled :
        /\ Times(qa_results.started, tool) = 0
        /\ StatusOf(tool) = None

\* C31, the part that holds: a disabled tool is never started.
C31_DisabledToolNeverStarted ==
    \A tool \in Disabled : Times(qa_results.started, tool) = 0

\* the tools of the log that were started after the last start of tool
StartedAfter(tool) ==
    LET log == qa_results.started
        last == CHOOSE i \in 1..Len(log) :
                    /\ log[i] = tool
                    /\ \A j \in (i + 1)..Len(log) : log[j] # tool
    IN  {log[j] : j \in (last + 1)..Len(log)} \cap Tools

\* C32: a tool whose run returned -1 (timed out, or could not be executed)
\* has status "failed" and its stdout and stderr in the dict; the pipeline
\* has returned and not raised; and after ruff or black returned -1 no tool
\* was started in the run.
C32_TimeoutIsToolFailure ==
    \A tool \in Tools :
        qa_results.exits[tool] = "-1" =>
            /\ StatusOf(tool) = "failed"
            /\ tool \in qa_results.captured
            /\ Returned
            /\ tool \in {"ruff", "black"} => StartedAfter(tool) = {}

\* with mypy enabled, black timed out after ruff had passed: black is
\* failed, ruff is still passed, and mypy was not started
C32_Witness ==
    /\ do_mypy
    /\ qa_results.exits["black"] = "-1"
    /\ qa_results.ruff_status = "passed"
    /\ qa_results.black_status = "failed"
    /\ qa_results.started = <<"ruff", "black">>
    /\ Returned

StatusDue(tool) ==
    LET rc == qa_results.exits[tool]
    IN  IF StatFailed THEN "failed"
        ELSE IF rc = None THEN None
        ELSE IF rc = "0" THEN "passed"
        ELSE IF rc \in {"-1", "unfixable"} THEN "failed"
        ELSE IF tool = "mypy" THEN "failed"
        ELSE "warnings"

C34_AdvisoryCountsEveryFailure ==
    \A f \in {TextFile, PyFile} :
        LET calls == CallsOn(f)
            n == Len(calls)
        IN  n >= SECOND_ATTEMPT =>
                get_failed_edit_info(FAILED_EDITS_HISTORY, f,
                                     calls[n].patch_content).ordinal
                    = Ordinal(n)

(***************************************************************************)
(* The requests around the hundredth.                                      *)
(***************************************************************************)
\* the step is the entry of a request: from idle, and not the clock
RequestEntry == pc = "idle" /\ now' = now

\* the step is the entry of a request in which garbage collection runs
SweepEntry == RequestEntry /\ (TOOL_CALL_COUNTER + 1) % GC_EVERY = 0

\* C35: the streak of a file leaves MYPY_FAILURE_COUNTS only in a step in
\* which garbage collection runs and removes the history of the file as
\* well: a file whose history stays, or that has none, keeps its streak.
\* The steps that clear the history after a success, record a failure or
\* compute the advisory without a collection leave the table as it is.
C35_StreakLeavesWithHistory ==
    [][/\ \A f \in DOMAIN MYPY_FAILURE_COUNTS \ DOMAIN MYPY_FAILURE_COUNTS' :
              /\ SweepEntry
              /\ f \in DOMAIN FAILED_EDITS_HISTORY
              /\ f \notin DOMAIN FAILED_EDITS_HISTORY'
       /\ (pc \in {"finish", "except"} \/ (RequestEntry /\ ~SweepEntry)) =>
              MYPY_FAILURE_COUNTS' = MYPY_FAILURE_COUNTS]_vars

\* the hundredth request has come in; before it the Python file had a
\* request that ended with QA results, which gave it a streak, and then a
\* failed one, which gave it a history; both entries are gone
C35_Witness ==
    /\ TOOL_CALL_COUNTER = GC_EVERY
    /\ PyFile \notin DOMAIN MYPY_FAILURE_COUNTS
    /\ PyFile \notin DOMAIN FAILED_EDITS_HISTORY
    /\ \E i, j \in 1..Len(trace) :
           /\ i < j
           /\ trace[i].file_path = PyFile
           /\ trace[i].response.status = "success"
           /\ trace[i].response.qa = "results"
           /\ trace[j].file_path = PyFile
           /\ trace[j].response.status = "raised"

\* C36: every request, one that fails an early check included, raises
\* TOOL_CALL_COUNTER by one, and no other step changes it.  When the new
\* count is a multiple of 100 the two tables are what
\* garbage_collect_failed_edit_history makes of them and the advisory of
\* the request is computed from the collected history; in every other
\* request the tables are left alone and the advisory is computed from the
\* history as it was.
C36_SweepEveryHundredth ==
    [][IF RequestEntry
       THEN LET swept == garbage_collect_failed_edit_history(
                             FAILED_EDITS_HISTORY, MYPY_FAILURE_COUNTS, now)
                read == IF (TOOL_CALL_COUNTER + 1) % GC_EVERY = 0
                        THEN swept
                        ELSE [history |-> FAILED_EDITS_HISTORY,
                              counts |-> MYPY_FAILURE_COUNTS]
            IN  /\ TOOL_CALL_COUNTER' = TOOL_CALL_COUNTER + 1
                /\ FAILED_EDITS_HISTORY' = read.history
                /\ MYPY_FAILURE_COUNTS' = read.counts
                /\ awareness_message' =
                       get_failed_edit_info(read.history, file_path',
                                            patch_content')
       ELSE TOOL_CALL_COUNTER' = TOOL_CALL_COUNTER]_vars

\* the hundredth request has come in for the Python file, right after two
\* failed requests on it and one that failed the early checks: the two
\* attempts were collected, and the request got no advisory
C36_Witness ==
    /\ TOOL_CALL_COUNTER = GC_EVERY
    /\ pc = "parse"
    /\ file_path = PyFile
    /\ PyFile \notin DOMAIN FAILED_EDITS_HISTORY
    /\ Len(trace) = 3
    /\ \A k \in 1..2 : /\ trace[k].file_path = PyFile
                        /\ trace[k].response.status = "raised"
    /\ trace[3].file_path = RelativeFile
    /\ awareness_message = None

(***************************************************************************)
(* The two ways of extraction, side by side.                               *)
(***************************************************************************)
\* the request passed validate_block_integrity and the pattern matched
RegexExtracts ==
    /\ pc # "idle"
    /\ validate_block_integrity(patch_content).ok
    /\ RegexMatches(patch_content) # <<>>

\* C37: on a request that passes validate_block_integrity and in which the
\* pattern matches at least once, the line-by-line extraction run on the
\* same text returns exactly when the pattern path returns, and then the
\* same pairs in the same order.
C37_StrategiesInterchangeable ==
    RegexExtracts =>
        \E by_regex \in {CheckMatches(RegexMatches(patch_content))} :
        \E by_lines \in {FallbackParse(patch_content)} :
            /\ by_regex.ok = by_lines.ok
            /\ by_regex.blocks = by_lines.blocks

(***************************************************************************)
(* The one region of a hint.                                               *)
(***************************************************************************)
\* the windows of the file that score 0.80 or more against the search text
\* of the call: every run of lines whose length is within LINE_TOLERANCE of
\* the search text's, with its score
Scored ==
    LET content_lines == Split(fuzzy.content, <<NL>>)
        normalized_search ==
            normalize_text_for_fuzzy_matching(fuzzy.search_text)
        num_search_lines == Len(Split(normalized_search, <<NL>>))
        ScoreOf(s, e) ==
            Similarity(normalized_search,
                       normalize_text_for_fuzzy_matching(
                           Join(SubSeq(content_lines, s, e), <<NL>>)))
    IN  IF Strip(normalized_search) = <<>> THEN {}
        ELSE {c \in {[start_line |-> s, end_line |-> e,
                      similarity |-> ScoreOf(s, e)] :
                         s \in 1..Len(content_lines),
                         e \in 1..Len(content_lines)} :
                 /\ c.end_line >= c.start_line
                 /\ c.end_line - c.start_line + 1
                        >= num_search_lines - LINE_TOLERANCE
                 /\ c.end_line - c.start_line + 1
                        <= num_search_lines + LINE_TOLERANCE
                 /\ SIMILARITY_DEN * 2 * c.similarity.m
                        >= SIMILARITY_NUM * c.similarity.t}

\* no window scores higher than b
Highest(b, scored) ==
    \A c \in scored : b.similarity.m * c.similarity.t
                           >= c.similarity.m * b.similarity.t

\* the two windows share no line
Apart(b, c) == c.end_line < b.start_line \/ c.start_line > b.end_line

\* score(b) - score(c), times AMBIGUITY_GAP_DEN and the two lengths; it is
\* the product of the two lengths when the scores are 0.05 apart
Lead(b, c) ==
    AMBIGUITY_GAP_DEN * (2 * b.similarity.m * c.similarity.t
                             - 2 * c.similarity.m * b.similarity.t)

Window(m) ==
    [start_line |-> m.start_line, end_line |-> m.end_line,
     similarity |-> m.similarity]

\* what C38 asks of the list find_fuzzy_matches returns
OneClearRegion(found, scored) ==
    /\ Len(found) <= 1
    /\ Len(found) = 1 =>
           /\ Window(found[1]) \in scored
           /\ Highest(found[1], scored)
           /\ \A c \in scored :
                  Apart(found[1], c) =>
                      Lead(found[1], c)
                          >= found[1].similarity.t * c.similarity.t
    /\ (found = <<>> /\ scored # {}) =>
           \E b \in scored, c \in scored :
               /\ Highest(b, scored)
               /\ Apart(b, c)
               /\ Lead(b, c) <= b.similarity.t * c.similarity.t

\* the lines of the hint marked as the likely match
MarkedLines ==
    {fuzzy.hint[k].line_num : k \in {j \in 1..Len(fuzzy.hint) :
                                        fuzzy.hint[j].likely_match}}

\* C38: find_fuzzy_matches returns one candidate at most; a returned
\* candidate scores 0.80 or more, no window scores higher, and it leads
\* every scoring window apart from it by 0.05 at least; and when it returns
\* none although some window scores 0.80 or more, a highest-scoring window
\* leads some scoring window apart from it by 0.05 at most.  The lines a
\* hint marks are one run of lines.  Checked on the calls that pass the
\* safeguards, the ones in which find_fuzzy_matches is called.
C38_OneClearRegion ==
    (fuzzy.returned /\ safeguards_pass(fuzzy.search_text)) =>
        \E scored \in {Scored} :
            /\ \A on_edge \in BOOLEAN :
                   OneClearRegion(find_fuzzy_matches(fuzzy.search_text,
                                                     fuzzy.content, on_edge),
                                  scored)
            /\ fuzzy.hint # NoHint =>
                   \E b \in scored :
                       /\ Highest(b, scored)
                       /\ MarkedLines = b.start_line..b.end_line

\* the file holds the search text twice, the second time with letters
\* struck out but scoring 0.80 or more, and the hint marks the first
C38_Witness ==
    /\ fuzzy.returned
    /\ fuzzy.hint # NoHint
    /\ MarkedLines = 1..2
    /\ \E c \in Scored :
           /\ c.start_line > 2
           /\ c.similarity.m < c.similarity.t \div 2

=============================================================================
